---- MODULE Spec2Model ----
(***************************************************************************)
(* A state-machine model of ripdoc-core: the content-stream interpreter    *)
(* (content_stream.rs), the font decoder (fonts/mod.rs, fonts/encoding.rs) *)
(* and the page cache of Document (document.rs).                           *)
(*                                                                         *)
(* Numbers: the program computes in f64.  The model computes in integers   *)
(* and draws every operand from sets on which the program's arithmetic is  *)
(* exact (widths are multiples of 500, font sizes are even, horizontal     *)
(* scaling is a multiple of 100, matrices are axis-aligned), so that       *)
(* /1000, /100 and sqrt below return the value the program computes.       *)
(* Option<T> is a sequence: <<>> is None and <<x>> is Some(x).  A String   *)
(* of decoded text is the sequence of its Unicode code points.             *)
(***************************************************************************)
EXTENDS Integers, Sequences, FiniteSets, TLC

VARIABLES
  doc,          \* the parsed container (lopdf::Document): pages, forms, fonts
  pages_cache,  \* Document.pages_cache : page number -> Page
  font_cache,   \* Document.font_cache / ContentStreamInterpreter.fonts
  call,         \* the Document method being executed, or the last one, with its result
  interp,       \* the ContentStreamInterpreter of the extraction in progress
  frames,       \* the nested op_do_xobject invocations (innermost last)
  pc,           \* number of operators of the page's content stream processed
  trace,        \* history: one record per executed operator handler
  log,          \* history: the Page of every extract_page that returned Ok
  fn            \* pure-function checks: the input drawn and the result computed

vars == <<doc, pages_cache, font_cache, call, interp, frames, pc, trace, log, fn>>

\* no pure function under check
NoFn == [name |-> "none", args |-> <<>>, ret |-> <<>>, done |-> FALSE]

\* calls of Document::page and Document::pages per run
MaxCalls == 3

None == <<>>
Some(x) == <<x>>

Abs(x) == IF x < 0 THEN -x ELSE x
Min(x, y) == IF x <= y THEN x ELSE y
Max(x, y) == IF x >= y THEN x ELSE y

\* f64::sqrt on the perfect squares the model produces.
Sqrt(n) == CHOOSE r \in 0..n : r * r <= n /\ (r + 1) * (r + 1) > n

\* f64 division; every use in the model divides exactly.
Div(x, k) == IF x >= 0 THEN x \div k ELSE -((-x) \div k)

RECURSIVE SumSeq(_)
SumSeq(s) == IF s = <<>> THEN 0 ELSE Head(s) + SumSeq(Tail(s))

(***************************************************************************)
(* geometry/ctm.rs                                                         *)
(***************************************************************************)
Matrix(a, b, c, d, e, f) == [a |-> a, b |-> b, c |-> c, d |-> d, e |-> e, f |-> f]

identity == Matrix(1, 0, 0, 1, 0, 0)

translate(tx, ty) == Matrix(1, 0, 0, 1, tx, ty)

scale(sx, sy) == Matrix(sx, 0, 0, sy, 0, 0)

multiply(self, other) ==
  Matrix(self.a * other.a + self.b * other.c,
         self.a * other.b + self.b * other.d,
         self.c * other.a + self.d * other.c,
         self.c * other.b + self.d * other.d,
         self.e * other.a + self.f * other.c + other.e,
         self.e * other.b + self.f * other.d + other.f)

transform_point(self, x, y) ==
  <<self.a * x + self.c * y + self.e, self.b * x + self.d * y + self.f>>

font_size(self) == Sqrt(self.b * self.b + self.d * self.d)

\* |b| < 1e-6 and |c| < 1e-6 on integer entries
is_upright(self) == self.b = 0 /\ self.c = 0

as_array(self) == <<self.a, self.b, self.c, self.d, self.e, self.f>>

(***************************************************************************)
(* fonts/encoding.rs                                                       *)
(***************************************************************************)
\* char::from_u32: None for a surrogate and beyond U+10FFFF
char_from_u32(code) ==
  IF (code >= 0 /\ code < 55296) \/ (code > 57343 /\ code <= 1114111)
  THEN Some(code) ELSE None

TableGet(tbl, code) ==
  IF \E p \in tbl : p[1] = code
  THEN Some((CHOOSE p \in tbl : p[1] = code)[2])
  ELSE None

WIN_ANSI_HIGH ==
  {
    <<128, 8364>>, <<130, 8218>>, <<131, 402>>, <<132, 8222>>, <<133, 8230>>, <<134, 8224>>,
    <<135, 8225>>, <<136, 710>>, <<137, 8240>>, <<138, 352>>, <<139, 8249>>, <<140, 338>>,
    <<142, 381>>, <<145, 8216>>, <<146, 8217>>, <<147, 8220>>, <<148, 8221>>, <<149, 8226>>,
    <<150, 8211>>, <<151, 8212>>, <<152, 732>>, <<153, 8482>>, <<154, 353>>, <<155, 8250>>,
    <<156, 339>>, <<158, 382>>, <<159, 376>>
  }

STANDARD_HIGH ==
  {
    <<161, 161>>, <<162, 162>>, <<163, 163>>, <<164, 8260>>, <<165, 165>>, <<166, 402>>,
    <<167, 167>>, <<168, 164>>, <<169, 39>>, <<170, 8220>>, <<171, 171>>, <<172, 8249>>,
    <<173, 8250>>, <<174, 64257>>, <<175, 64258>>, <<177, 8211>>, <<178, 8224>>, <<179, 8225>>,
    <<180, 183>>, <<183, 8226>>, <<184, 8218>>, <<185, 8222>>, <<186, 8221>>, <<187, 187>>,
    <<188, 8230>>, <<189, 8240>>, <<193, 96>>, <<194, 180>>, <<195, 710>>, <<196, 732>>,
    <<197, 175>>, <<198, 728>>, <<199, 729>>, <<200, 168>>, <<202, 730>>, <<203, 184>>,
    <<205, 733>>, <<206, 731>>, <<207, 711>>, <<208, 8212>>, <<225, 198>>, <<227, 170>>,
    <<232, 321>>, <<233, 216>>, <<234, 338>>, <<235, 186>>, <<241, 230>>, <<245, 305>>,
    <<248, 322>>, <<249, 248>>, <<250, 339>>, <<251, 223>>
  }

PDF_DOC_HIGH ==
  {
    <<128, 8226>>, <<129, 8224>>, <<130, 8225>>, <<131, 8230>>, <<132, 8212>>, <<133, 8211>>,
    <<134, 402>>, <<135, 8260>>, <<136, 8249>>, <<137, 8250>>, <<138, 8722>>, <<139, 8240>>,
    <<140, 8222>>, <<141, 8220>>, <<142, 8221>>, <<143, 8216>>, <<144, 8217>>, <<145, 8218>>,
    <<146, 8482>>, <<147, 64257>>, <<148, 64258>>, <<149, 321>>, <<150, 338>>, <<151, 352>>,
    <<152, 376>>, <<153, 381>>, <<154, 305>>, <<155, 322>>, <<156, 339>>, <<157, 353>>,
    <<158, 382>>, <<173, 173>>
  }

MAC_ROMAN_HIGH ==
  <<
    196, 197, 199, 201, 209, 214, 220, 225,
    224, 226, 228, 227, 229, 231, 233, 232,
    234, 235, 237, 236, 238, 239, 241, 243,
    242, 244, 246, 245, 250, 249, 251, 252,
    8224, 176, 162, 163, 167, 8226, 182, 223,
    174, 169, 8482, 180, 168, 8800, 198, 216,
    8734, 177, 8804, 8805, 165, 181, 8706, 8721,
    8719, 960, 8747, 170, 186, 8486, 230, 248,
    191, 161, 172, 8730, 402, 8776, 8710, 171,
    187, 8230, 160, 192, 195, 213, 338, 339,
    8211, 8212, 8220, 8221, 8216, 8217, 247, 9674,
    255, 376, 8260, 8364, 8249, 8250, 64257, 64258,
    8225, 183, 8218, 8222, 8240, 194, 202, 193,
    203, 200, 205, 206, 207, 204, 211, 212,
    63743, 210, 218, 219, 217, 305, 710, 732,
    175, 728, 729, 730, 184, 733, 731, 711
  >>

win_ansi_decode(code) ==
  IF code < 128 THEN char_from_u32(code)
  ELSE IF TableGet(WIN_ANSI_HIGH, code) # None THEN TableGet(WIN_ANSI_HIGH, code)
  ELSE IF code >= 160 /\ code <= 255 THEN char_from_u32(code)
  ELSE None

mac_roman_decode(code) ==
  IF code < 128 THEN char_from_u32(code)
  ELSE IF code >= 128 /\ code < 256 THEN char_from_u32(MAC_ROMAN_HIGH[code - 128 + 1])
  ELSE None

standard_decode(code) ==
  IF code < 128 THEN char_from_u32(code)
  ELSE IF TableGet(STANDARD_HIGH, code) # None THEN TableGet(STANDARD_HIGH, code)
  ELSE char_from_u32(code)

pdf_doc_decode(code) ==
  IF TableGet(PDF_DOC_HIGH, code) # None THEN TableGet(PDF_DOC_HIGH, code)
  ELSE char_from_u32(code)

\* Encoding::decode of a named encoding
decode_named(kind, code) ==
  CASE kind = "WinAnsi"   -> win_ansi_decode(code)
    [] kind = "MacRoman"  -> mac_roman_decode(code)
    [] kind = "Standard"  -> standard_decode(code)
    [] kind = "PDFDoc"    -> pdf_doc_decode(code)
    [] kind = "Identity"  -> char_from_u32(code)
    [] kind = "MacExpert" -> standard_decode(code)

\* An Encoding is [kind, base, overrides]; base and overrides matter for Custom only.
NamedEncoding(kind) == [kind |-> kind, base |-> kind, overrides |-> <<>>]

CustomEncoding(base, overrides) == [kind |-> "Custom", base |-> base, overrides |-> overrides]

decode(self, code) ==
  IF self.kind = "Custom"
  THEN IF code \in DOMAIN self.overrides
       THEN Some(self.overrides[code])
       ELSE decode_named(self.base, code)
  ELSE decode_named(self.kind, code)

(***************************************************************************)
(* fonts/mod.rs                                                            *)
(***************************************************************************)
REPLACEMENT_CHARACTER == 65533

FontInfoDefault ==
  [name |-> "", base_font |-> "", to_unicode |-> <<>>, widths |-> <<>>,
   default_width |-> 1000, encoding |-> NamedEncoding("Standard"),
   is_cid |-> FALSE, bytes_per_char |-> 1]

\* variant of decode_char that asks the encoding before the ToUnicode map
decode_char_encoding_first(self, code) ==
  IF decode(self.encoding, code) # None THEN decode(self.encoding, code)
  ELSE IF code \in DOMAIN self.to_unicode THEN self.to_unicode[code]
  ELSE IF code < 128 /\ char_from_u32(code) # None THEN char_from_u32(code)
  ELSE <<REPLACEMENT_CHARACTER>>

decode_char(self, code) ==
  IF code \in DOMAIN self.to_unicode THEN self.to_unicode[code]
  ELSE IF decode(self.encoding, code) # None THEN decode(self.encoding, code)
  ELSE IF code < 128 /\ char_from_u32(code) # None THEN char_from_u32(code)
  ELSE <<REPLACEMENT_CHARACTER>>

char_width(self, code) ==
  IF code \in DOMAIN self.widths THEN self.widths[code] ELSE self.default_width

RECURSIVE chunks2(_)
chunks2(bytes) ==
  IF Len(bytes) = 0 THEN <<>>
  ELSE IF Len(bytes) = 1 THEN <<bytes[1]>>
  ELSE <<bytes[1] * 256 + bytes[2]>> \o chunks2(SubSeq(bytes, 3, Len(bytes)))

\* the list of (code, text) pairs
decode_string(self, bytes) ==
  LET codes == IF self.is_cid \/ self.bytes_per_char = 2 THEN chunks2(bytes) ELSE bytes
  IN [i \in 1..Len(codes) |-> <<codes[i], decode_char(self, codes[i])>>]

(***************************************************************************)
(* lopdf objects: operands of a content-stream operation                   *)
(***************************************************************************)
Integer(n) == [t |-> "Integer", n |-> n]

Name(s) == [t |-> "Name", s |-> s]

String(b) == [t |-> "String", b |-> b]

Array(a) == [t |-> "Array", a |-> a]

Operation(operator, operands) == [operator |-> operator, operands |-> operands]

EmptyMap == [k \in {} |-> 0]

get_number(obj) == IF obj.t = "Integer" THEN obj.n ELSE 0

(***************************************************************************)
(* objects.rs: Color, GraphicsState, TextState                             *)
(***************************************************************************)
Gray(v) == <<"Gray", v>>

RGB(r, g, b) == <<"RGB", r, g, b>>

CMYK(c, m, y, k) == <<"CMYK", c, m, y, k>>

GraphicsStateDefault ==
  [ctm |-> identity, line_width |-> 1, line_cap |-> 0, line_join |-> 0,
   miter_limit |-> 10, dash_pattern |-> <<>>, dash_phase |-> 0,
   stroking_color |-> Some(Gray(0)), non_stroking_color |-> Some(Gray(0)),
   stroking_colorspace |-> "DeviceGray", non_stroking_colorspace |-> "DeviceGray"]

TextStateDefault ==
  [font_name |-> "", font_size |-> 0, char_spacing |-> 0, word_spacing |-> 0,
   horizontal_scaling |-> 100, leading |-> 0, rise |-> 0, render_mode |-> 0,
   text_matrix |-> identity, text_line_matrix |-> identity]

(***************************************************************************)
(* content_stream.rs: ContentStreamInterpreter                             *)
(***************************************************************************)
InterpreterNew(page_height, doctop_offset) ==
  [page_height |-> page_height, doctop_offset |-> doctop_offset,
   graphics_stack |-> <<>>, gs |-> GraphicsStateDefault,
   ts |-> TextStateDefault, in_text |-> FALSE,
   path |-> <<>>, current_point |-> None,
   chars |-> <<>>, lines |-> <<>>, rects |-> <<>>, curves |-> <<>>]

\* === Graphics State Operators ===

op_save_state(self) ==
  [self EXCEPT !.graphics_stack = Append(@, self.gs)]

\* variant of Q that also puts the text state back to its initial value
op_restore_state_text(self) ==
  IF self.graphics_stack # <<>>
  THEN [self EXCEPT !.gs = self.graphics_stack[Len(self.graphics_stack)],
                    !.graphics_stack = SubSeq(@, 1, Len(@) - 1),
                    !.ts = TextStateDefault]
  ELSE self

op_restore_state(self) ==
  IF self.graphics_stack # <<>>
  THEN [self EXCEPT !.gs = self.graphics_stack[Len(self.graphics_stack)],
                    !.graphics_stack = SubSeq(@, 1, Len(@) - 1)]
  ELSE self

MatrixOf(o) ==
  Matrix(get_number(o[1]), get_number(o[2]), get_number(o[3]),
         get_number(o[4]), get_number(o[5]), get_number(o[6]))

op_concat_matrix_right(self, operands) ==
  IF Len(operands) >= 6
  THEN [self EXCEPT !.gs.ctm = multiply(self.gs.ctm, MatrixOf(operands))]
  ELSE self

op_concat_matrix(self, operands) ==
  IF Len(operands) >= 6
  THEN [self EXCEPT !.gs.ctm = multiply(MatrixOf(operands), self.gs.ctm)]
  ELSE self

op_set_line_width(self, operands) ==
  IF Len(operands) >= 1 THEN [self EXCEPT !.gs.line_width = get_number(operands[1])] ELSE self

op_set_line_cap(self, operands) ==
  IF Len(operands) >= 1 THEN [self EXCEPT !.gs.line_cap = get_number(operands[1])] ELSE self

op_set_line_join(self, operands) ==
  IF Len(operands) >= 1 THEN [self EXCEPT !.gs.line_join = get_number(operands[1])] ELSE self

op_set_miter_limit(self, operands) ==
  IF Len(operands) >= 1 THEN [self EXCEPT !.gs.miter_limit = get_number(operands[1])] ELSE self

op_set_dash(self, operands) ==
  IF Len(operands) >= 2
  THEN LET arr == operands[1]
           s1 == IF arr.t = "Array"
                 THEN [self EXCEPT !.gs.dash_pattern =
                         [i \in 1..Len(arr.a) |-> get_number(arr.a[i])]]
                 ELSE self
       IN [s1 EXCEPT !.gs.dash_phase = get_number(operands[2])]
  ELSE self

\* resources is Option<resource id>; the ExtGState dictionary named by the operand
op_set_graphics_state(self, operands, page_resources) ==
  IF Len(operands) >= 1 /\ page_resources # None
  THEN IF operands[1].t # "Name" THEN self
       ELSE LET ext_gs == doc.resources[page_resources[1]].ExtGState
                gs_name == operands[1].s
            IN IF gs_name \notin DOMAIN ext_gs THEN self
               ELSE LET g == ext_gs[gs_name]
                        s1 == IF g.LW # None THEN [self EXCEPT !.gs.line_width = g.LW[1]] ELSE self
                        s2 == IF g.LC # None THEN [s1 EXCEPT !.gs.line_cap = g.LC[1]] ELSE s1
                        s3 == IF g.LJ # None THEN [s2 EXCEPT !.gs.line_join = g.LJ[1]] ELSE s2
                    IN IF g.Font # None
                       THEN [s3 EXCEPT !.ts.font_name = g.Font[1][1],
                                       !.ts.font_size = g.Font[1][2]]
                       ELSE s3
  ELSE self

\* === Color Operators ===

parse_color(operands, colorspace) ==
  LET n(i) == get_number(operands[i])
  IN IF colorspace \in {"DeviceGray", "CalGray"} /\ Len(operands) > 0
       THEN Some(Gray(n(1)))
     ELSE IF colorspace \in {"DeviceRGB", "CalRGB"} /\ Len(operands) >= 3
       THEN Some(RGB(n(1), n(2), n(3)))
     ELSE IF colorspace = "DeviceCMYK" /\ Len(operands) >= 4
       THEN Some(CMYK(n(1), n(2), n(3), n(4)))
     ELSE IF Len(operands) = 1 THEN Some(Gray(n(1)))
     ELSE IF Len(operands) = 3 THEN Some(RGB(n(1), n(2), n(3)))
     ELSE IF Len(operands) = 4 THEN Some(CMYK(n(1), n(2), n(3), n(4)))
     ELSE None

op_set_stroking_colorspace(self, operands) ==
  IF Len(operands) >= 1 /\ operands[1].t = "Name"
  THEN [self EXCEPT !.gs.stroking_colorspace = operands[1].s] ELSE self

op_set_nonstroking_colorspace(self, operands) ==
  IF Len(operands) >= 1 /\ operands[1].t = "Name"
  THEN [self EXCEPT !.gs.non_stroking_colorspace = operands[1].s] ELSE self

op_set_stroking_color(self, operands) ==
  [self EXCEPT !.gs.stroking_color = parse_color(operands, self.gs.stroking_colorspace)]

op_set_nonstroking_color(self, operands) ==
  [self EXCEPT !.gs.non_stroking_color = parse_color(operands, self.gs.non_stroking_colorspace)]

op_set_gray_stroke(self, operands) ==
  IF Len(operands) >= 1
  THEN [self EXCEPT !.gs.stroking_color = Some(Gray(get_number(operands[1]))),
                    !.gs.stroking_colorspace = "DeviceGray"]
  ELSE self

op_set_gray_fill(self, operands) ==
  IF Len(operands) >= 1
  THEN [self EXCEPT !.gs.non_stroking_color = Some(Gray(get_number(operands[1]))),
                    !.gs.non_stroking_colorspace = "DeviceGray"]
  ELSE self

op_set_rgb_stroke(self, operands) ==
  IF Len(operands) >= 3
  THEN [self EXCEPT !.gs.stroking_color =
          Some(RGB(get_number(operands[1]), get_number(operands[2]), get_number(operands[3]))),
                    !.gs.stroking_colorspace = "DeviceRGB"]
  ELSE self

op_set_rgb_fill(self, operands) ==
  IF Len(operands) >= 3
  THEN [self EXCEPT !.gs.non_stroking_color =
          Some(RGB(get_number(operands[1]), get_number(operands[2]), get_number(operands[3]))),
                    !.gs.non_stroking_colorspace = "DeviceRGB"]
  ELSE self

op_set_cmyk_stroke(self, operands) ==
  IF Len(operands) >= 4
  THEN [self EXCEPT !.gs.stroking_color =
          Some(CMYK(get_number(operands[1]), get_number(operands[2]),
                    get_number(operands[3]), get_number(operands[4]))),
                    !.gs.stroking_colorspace = "DeviceCMYK"]
  ELSE self

op_set_cmyk_fill(self, operands) ==
  IF Len(operands) >= 4
  THEN [self EXCEPT !.gs.non_stroking_color =
          Some(CMYK(get_number(operands[1]), get_number(operands[2]),
                    get_number(operands[3]), get_number(operands[4]))),
                    !.gs.non_stroking_colorspace = "DeviceCMYK"]
  ELSE self

\* === Text State Operators ===

op_begin_text(self) ==
  [self EXCEPT !.in_text = TRUE, !.ts.text_matrix = identity,
               !.ts.text_line_matrix = identity]

op_end_text(self) == [self EXCEPT !.in_text = FALSE]

op_set_font(self, operands) ==
  IF Len(operands) >= 2
  THEN LET s1 == IF operands[1].t = "Name"
                 THEN [self EXCEPT !.ts.font_name = operands[1].s] ELSE self
       IN [s1 EXCEPT !.ts.font_size = get_number(operands[2])]
  ELSE self

op_set_char_spacing(self, operands) ==
  IF Len(operands) >= 1 THEN [self EXCEPT !.ts.char_spacing = get_number(operands[1])] ELSE self

op_set_word_spacing(self, operands) ==
  IF Len(operands) >= 1 THEN [self EXCEPT !.ts.word_spacing = get_number(operands[1])] ELSE self

op_set_horizontal_scaling(self, operands) ==
  IF Len(operands) >= 1
  THEN [self EXCEPT !.ts.horizontal_scaling = get_number(operands[1])] ELSE self

op_set_leading(self, operands) ==
  IF Len(operands) >= 1 THEN [self EXCEPT !.ts.leading = get_number(operands[1])] ELSE self

op_set_render_mode(self, operands) ==
  IF Len(operands) >= 1 THEN [self EXCEPT !.ts.render_mode = get_number(operands[1])] ELSE self

op_set_rise(self, operands) ==
  IF Len(operands) >= 1 THEN [self EXCEPT !.ts.rise = get_number(operands[1])] ELSE self

\* === Text Positioning Operators ===

op_text_move(self, operands) ==
  IF Len(operands) >= 2
  THEN LET m == translate(get_number(operands[1]), get_number(operands[2]))
           tlm == multiply(m, self.ts.text_line_matrix)
       IN [self EXCEPT !.ts.text_line_matrix = tlm, !.ts.text_matrix = tlm]
  ELSE self

op_text_move_set_leading(self, operands) ==
  IF Len(operands) >= 2
  THEN op_text_move([self EXCEPT !.ts.leading = -get_number(operands[2])], operands)
  ELSE self

op_set_text_matrix(self, operands) ==
  IF Len(operands) >= 6
  THEN [self EXCEPT !.ts.text_matrix = MatrixOf(operands),
                    !.ts.text_line_matrix = MatrixOf(operands)]
  ELSE self

\* variant of T* that moves the line up by the leading
op_text_next_line_up(self) ==
  LET m == translate(0, self.ts.leading)
      tlm == multiply(m, self.ts.text_line_matrix)
  IN [self EXCEPT !.ts.text_line_matrix = tlm, !.ts.text_matrix = tlm]

op_text_next_line(self) ==
  LET m == translate(0, -self.ts.leading)
      tlm == multiply(m, self.ts.text_line_matrix)
  IN [self EXCEPT !.ts.text_line_matrix = tlm, !.ts.text_matrix = tlm]

\* === Text Showing Operators ===

adjust_text_position(self, adjustment) ==
  LET tx == -Div(Div(adjustment * self.ts.font_size, 1000) * self.ts.horizontal_scaling, 100)
  IN [self EXCEPT !.ts.text_matrix = multiply(translate(tx, 0), self.ts.text_matrix)]

\* the body of render_text's loop for one decoded (code, text) pair
RenderGlyph(self, font_info, code, text) ==
  LET h_num == self.ts.horizontal_scaling        \* h_scale = h_num / 100
      font_matrix == Matrix(Div(self.ts.font_size * h_num, 100), 0, 0,
                            self.ts.font_size, 0, self.ts.rise)
      trm == multiply(multiply(font_matrix, self.ts.text_matrix), self.gs.ctm)
      x == trm.e
      y == trm.f
      w_num == char_width(font_info, code)        \* w0 = w_num / 1000
      tx0 == Div((Div(w_num * self.ts.font_size, 1000) + self.ts.char_spacing) * h_num, 100)
      tx == IF text = <<32>> THEN tx0 + Div(self.ts.word_spacing * h_num, 100) ELSE tx0
      effective_size == font_size(trm)
      bottom == self.page_height - y
      top == bottom - effective_size
      x0 == x
      char_width_user == Div(Div(w_num * effective_size, 1000) * h_num, 100)
      x1 == x0 + char_width_user
      ch == [text |-> text, fontname |-> font_info.base_font, size |-> effective_size,
             x0 |-> x0, x1 |-> x1, top |-> top, bottom |-> bottom,
             doctop |-> top + self.doctop_offset, matrix |-> as_array(trm),
             upright |-> is_upright(trm),
             stroking_color |-> self.gs.stroking_color,
             non_stroking_color |-> self.gs.non_stroking_color, adv |-> tx]
  IN [self EXCEPT !.chars = Append(@, ch),
                  !.ts.text_matrix = multiply(translate(tx, 0), self.ts.text_matrix)]

RECURSIVE RenderDecoded(_, _, _)
RenderDecoded(self, font_info, decoded) ==
  IF decoded = <<>> THEN self
  ELSE RenderDecoded(RenderGlyph(self, font_info, decoded[1][1], decoded[1][2]),
                     font_info, Tail(decoded))

\* fonts is the FontCache: font name -> FontInfo
render_text(self, fonts, bytes) ==
  LET font_info == IF self.ts.font_name \in DOMAIN fonts
                   THEN fonts[self.ts.font_name] ELSE FontInfoDefault
  IN RenderDecoded(self, font_info, decode_string(font_info, bytes))

op_show_text(self, fonts, operands) ==
  IF Len(operands) >= 1 /\ operands[1].t = "String"
  THEN render_text(self, fonts, operands[1].b)
  ELSE self

RECURSIVE ShowItems(_, _, _)
ShowItems(self, fonts, items) ==
  IF items = <<>> THEN self
  ELSE LET item == items[1]
           s1 == IF item.t = "String" THEN render_text(self, fonts, item.b)
                 ELSE IF item.t = "Integer" THEN adjust_text_position(self, item.n)
                 ELSE self
       IN ShowItems(s1, fonts, Tail(items))

op_show_text_adjusted(self, fonts, operands) ==
  IF Len(operands) >= 1 /\ operands[1].t = "Array"
  THEN ShowItems(self, fonts, operands[1].a)
  ELSE self

op_move_show_text(self, fonts, operands) ==
  op_show_text(op_text_next_line(self), fonts, operands)

op_move_set_show_text(self, fonts, operands) ==
  IF Len(operands) >= 3
  THEN LET s1 == [self EXCEPT !.ts.word_spacing = get_number(operands[1]),
                              !.ts.char_spacing = get_number(operands[2])]
       IN op_show_text(op_text_next_line(s1), fonts, SubSeq(operands, 3, Len(operands)))
  ELSE self

\* === Path Construction Operators ===

op_path_move(self, operands) ==
  IF Len(operands) >= 2
  THEN LET x == get_number(operands[1])
           y == get_number(operands[2])
       IN [self EXCEPT !.path = Append(@, <<"MoveTo", x, y>>), !.current_point = <<x, y>>]
  ELSE self

op_path_line(self, operands) ==
  IF Len(operands) >= 2
  THEN LET x == get_number(operands[1])
           y == get_number(operands[2])
       IN [self EXCEPT !.path = Append(@, <<"LineTo", x, y>>), !.current_point = <<x, y>>]
  ELSE self

op_path_curve(self, operands) ==
  IF Len(operands) >= 6
  THEN LET n(i) == get_number(operands[i])
       IN [self EXCEPT !.path = Append(@, <<"CurveTo", n(1), n(2), n(3), n(4), n(5), n(6)>>),
                       !.current_point = <<n(5), n(6)>>]
  ELSE self

op_path_curve_v(self, operands) ==
  IF Len(operands) >= 4 /\ self.current_point # None
  THEN LET n(i) == get_number(operands[i])
           cx == self.current_point[1]
           cy == self.current_point[2]
       IN [self EXCEPT !.path = Append(@, <<"CurveTo", cx, cy, n(1), n(2), n(3), n(4)>>),
                       !.current_point = <<n(3), n(4)>>]
  ELSE self

op_path_curve_y(self, operands) ==
  IF Len(operands) >= 4
  THEN LET n(i) == get_number(operands[i])
       IN [self EXCEPT !.path = Append(@, <<"CurveTo", n(1), n(2), n(3), n(4), n(3), n(4)>>),
                       !.current_point = <<n(3), n(4)>>]
  ELSE self

op_path_close(self) == [self EXCEPT !.path = Append(@, <<"ClosePath">>)]

op_path_rect(self, operands) ==
  IF Len(operands) >= 4
  THEN LET n(i) == get_number(operands[i])
       IN [self EXCEPT !.path = Append(@, <<"Rect", n(1), n(2), n(3), n(4)>>)]
  ELSE self

\* === Path Painting Operators ===

to_page_coords(self, x, y) == <<x, self.page_height - y>>

add_line(self, x0, y0, x1, y1) ==
  LET p0 == to_page_coords(self, x0, y0)
      p1 == to_page_coords(self, x1, y1)
      line == [x0 |-> p0[1], y0 |-> p0[2], x1 |-> p1[1], y1 |-> p1[2],
               top |-> Min(p0[2], p1[2]), bottom |-> Max(p0[2], p1[2]),
               width |-> self.gs.line_width,
               stroking_color |-> self.gs.stroking_color,
               non_stroking_color |-> self.gs.non_stroking_color]
  IN [self EXCEPT !.lines = Append(@, line)]

\* one iteration of extract_path_objects' loop; st = [self, current, subpath_start]
ExtractSegment(st, segment, stroke, fill) ==
  LET self == st.self
      ctm == self.gs.ctm
      current == st.current
      subpath_start == st.subpath_start
  IN CASE segment[1] = "MoveTo" ->
            LET t == transform_point(ctm, segment[2], segment[3])
            IN [self |-> self, current |-> t, subpath_start |-> t]
       [] segment[1] = "LineTo" ->
            LET t == transform_point(ctm, segment[2], segment[3])
            IN [self |-> IF stroke THEN add_line(self, current[1], current[2], t[1], t[2])
                         ELSE self,
                current |-> t, subpath_start |-> subpath_start]
       [] segment[1] = "CurveTo" ->
            LET t1 == transform_point(ctm, segment[2], segment[3])
                t2 == transform_point(ctm, segment[4], segment[5])
                t3 == transform_point(ctm, segment[6], segment[7])
                curve == [points |-> <<to_page_coords(self, current[1], current[2]),
                                       to_page_coords(self, t1[1], t1[2]),
                                       to_page_coords(self, t2[1], t2[2]),
                                       to_page_coords(self, t3[1], t3[2])>>,
                          width |-> self.gs.line_width,
                          stroking_color |-> IF stroke THEN self.gs.stroking_color ELSE None,
                          non_stroking_color |->
                            IF fill THEN self.gs.non_stroking_color ELSE None]
            IN [self |-> [self EXCEPT !.curves = Append(@, curve)],
                current |-> t3, subpath_start |-> subpath_start]
       [] segment[1] = "ClosePath" ->
            [self |-> IF /\ stroke
                         /\ Abs(current[1] - subpath_start[1]) > 0
                         /\ Abs(current[2] - subpath_start[2]) > 0
                      THEN add_line(self, current[1], current[2],
                                    subpath_start[1], subpath_start[2])
                      ELSE self,
             current |-> subpath_start, subpath_start |-> subpath_start]
       [] segment[1] = "Rect" ->
            LET c0 == transform_point(ctm, segment[2], segment[3])
                c1 == transform_point(ctm, segment[2] + segment[4], segment[3] + segment[5])
                top == self.page_height - Max(c0[2], c1[2])
                bottom == self.page_height - Min(c0[2], c1[2])
                left == Min(c0[1], c1[1])
                right == Max(c0[1], c1[1])
                rect == [x0 |-> left, top |-> top, x1 |-> right, bottom |-> bottom,
                         width |-> Abs(right - left), height |-> Abs(bottom - top),
                         linewidth |-> self.gs.line_width,
                         stroking_color |-> IF stroke THEN self.gs.stroking_color ELSE None,
                         non_stroking_color |->
                           IF fill THEN self.gs.non_stroking_color ELSE None]
            IN [self |-> [self EXCEPT !.rects = Append(@, rect)],
                current |-> current, subpath_start |-> subpath_start]

RECURSIVE ExtractLoop(_, _, _, _)
ExtractLoop(st, path, stroke, fill) ==
  IF path = <<>> THEN st.self
  ELSE ExtractLoop(ExtractSegment(st, path[1], stroke, fill), Tail(path), stroke, fill)

\* std::mem::take(&mut self.path), then the loop over the taken path
extract_path_objects(self, stroke, fill) ==
  ExtractLoop([self |-> [self EXCEPT !.path = <<>>],
               current |-> <<0, 0>>, subpath_start |-> <<0, 0>>],
              self.path, stroke, fill)

\* variant of op_stroke that keeps the current point
op_stroke_keeps_point(self) ==
  [extract_path_objects(self, TRUE, FALSE) EXCEPT !.path = <<>>]

op_stroke(self) ==
  [extract_path_objects(self, TRUE, FALSE) EXCEPT !.path = <<>>, !.current_point = None]

op_fill(self) ==
  [extract_path_objects(self, FALSE, TRUE) EXCEPT !.path = <<>>, !.current_point = None]

op_end_path(self) == [self EXCEPT !.path = <<>>, !.current_point = None]

\* === process_operation, every operator but Do (which re-enters process_operation) ===

process_operation(self, fonts, op, page_resources) ==
  LET o == op.operator
      a == op.operands
  IN CASE o = "q"  -> op_save_state(self)
       [] o = "Q"  -> op_restore_state(self)
       [] o = "cm" -> op_concat_matrix(self, a)
       [] o = "w"  -> op_set_line_width(self, a)
       [] o = "J"  -> op_set_line_cap(self, a)
       [] o = "j"  -> op_set_line_join(self, a)
       [] o = "M"  -> op_set_miter_limit(self, a)
       [] o = "d"  -> op_set_dash(self, a)
       [] o = "gs" -> op_set_graphics_state(self, a, page_resources)
       [] o = "CS" -> op_set_stroking_colorspace(self, a)
       [] o = "cs" -> op_set_nonstroking_colorspace(self, a)
       [] o \in {"SC", "SCN"} -> op_set_stroking_color(self, a)
       [] o \in {"sc", "scn"} -> op_set_nonstroking_color(self, a)
       [] o = "G"  -> op_set_gray_stroke(self, a)
       [] o = "g"  -> op_set_gray_fill(self, a)
       [] o = "RG" -> op_set_rgb_stroke(self, a)
       [] o = "rg" -> op_set_rgb_fill(self, a)
       [] o = "K"  -> op_set_cmyk_stroke(self, a)
       [] o = "k"  -> op_set_cmyk_fill(self, a)
       [] o = "BT" -> op_begin_text(self)
       [] o = "ET" -> op_end_text(self)
       [] o = "Tf" -> op_set_font(self, a)
       [] o = "Tc" -> op_set_char_spacing(self, a)
       [] o = "Tw" -> op_set_word_spacing(self, a)
       [] o = "Tz" -> op_set_horizontal_scaling(self, a)
       [] o = "TL" -> op_set_leading(self, a)
       [] o = "Tr" -> op_set_render_mode(self, a)
       [] o = "Ts" -> op_set_rise(self, a)
       [] o = "Td" -> op_text_move(self, a)
       [] o = "TD" -> op_text_move_set_leading(self, a)
       [] o = "Tm" -> op_set_text_matrix(self, a)
       [] o = "T*" -> op_text_next_line(self)
       [] o = "Tj" -> op_show_text(self, fonts, a)
       [] o = "TJ" -> op_show_text_adjusted(self, fonts, a)
       [] o = "'"  -> op_move_show_text(self, fonts, a)
       [] o = "\"" -> op_move_set_show_text(self, fonts, a)
       [] o = "m"  -> op_path_move(self, a)
       [] o = "l"  -> op_path_line(self, a)
       [] o = "c"  -> op_path_curve(self, a)
       [] o = "v"  -> op_path_curve_v(self, a)
       [] o = "y"  -> op_path_curve_y(self, a)
       [] o = "h"  -> op_path_close(self)
       [] o = "re" -> op_path_rect(self, a)
       [] o = "S"  -> op_stroke(self)
       [] o = "s"  -> op_stroke(op_path_close(self))
       [] o \in {"f", "F"} -> op_fill(self)
       [] o = "f*" -> op_fill(self)
       [] o \in {"B", "B*"} -> op_stroke(op_fill(self))
       [] o \in {"b", "b*"} -> op_stroke(op_fill(op_path_close(self)))
       [] o = "n"  -> op_end_path(self)
       [] OTHER    -> self

(***************************************************************************)
(* document.rs: Document over the parsed container                         *)
(*                                                                         *)
(* doc = [page_ids, nodes, resources, fonts, xobjects]                     *)
(*   page_ids  : the page-tree leaves in page order (node ids)             *)
(*   nodes     : node id -> [Parent, MediaBox, CropBox, Resources, content]*)
(*               content is None when the stream does not decode           *)
(*   resources : resource id -> [Font, XObject, ExtGState] (name -> ...)   *)
(*   fonts     : font object id -> [resolves, info]                        *)
(*   xobjects  : stream id -> [Subtype, Matrix, Resources, content]        *)
(* A dictionary held inline and one held by reference are the same here.   *)
(***************************************************************************)
page_count == Len(doc.page_ids)

US_LETTER == <<0, 0, 612, 792>>

RECURSIVE find_media_box(_)
find_media_box(node) ==
  LET page_dict == doc.nodes[node]
  IN IF page_dict.MediaBox # None THEN page_dict.MediaBox[1]
     ELSE IF page_dict.CropBox # None THEN page_dict.CropBox[1]
     ELSE IF page_dict.Parent # None THEN find_media_box(page_dict.Parent[1])
     ELSE US_LETTER

\* (width, height)
get_page_dimensions(page_id) ==
  LET media_box == find_media_box(page_id)
  IN <<Abs(media_box[3] - media_box[1]), Abs(media_box[4] - media_box[2])>>

get_page_resources(page_id) ==
  LET page_dict == doc.nodes[page_id]
  IN IF page_dict.Resources # None THEN page_dict.Resources
     ELSE IF page_dict.Parent # None
          THEN doc.nodes[page_dict.Parent[1]].Resources
          ELSE None

\* the sum over 0..idx of the earlier pages' heights (idx is 0-based)
\* variant of the doctop offset that also counts the page itself
DoctopOffset_inclusive(idx) ==
  SumSeq([i \in 1..(idx + 1) |-> get_page_dimensions(doc.page_ids[i])[2]])

DoctopOffset(idx) ==
  SumSeq([i \in 1..idx |-> get_page_dimensions(doc.page_ids[i])[2]])

\* variant of the range check that lets page 0 through
PageOutOfRange_upper_only(page_number) == page_number > Len(doc.page_ids)

\* page(): the range check of line 76
PageOutOfRange(page_number) == page_number = 0 \/ page_number > Len(doc.page_ids)

\* variant of the cache lookup that never hits
CacheContains_never(cache, n) == FALSE

\* page(), pages(): self.pages_cache.contains_key(&n)
CacheContains(cache, n) == n \in DOMAIN cache

CacheInsert(cache, n, page) ==
  [k \in DOMAIN cache \cup {n} |-> IF k = n THEN page ELSE cache[k]]

(***************************************************************************)
(* content_stream.rs: load_fonts, process_page, op_do_xobject              *)
(***************************************************************************)
\* resolve_font, or the default font inserted when it fails
ResolvedFont(font_name, fid) ==
  IF doc.fonts[fid].resolves = "ok"
  THEN [doc.fonts[fid].info EXCEPT !.name = font_name]
  ELSE [FontInfoDefault EXCEPT !.name = font_name]

\* fonts: the FontCache; resources: a resource id
load_fonts(fonts, resources) ==
  LET font_dict == doc.resources[resources].Font
      added == {n \in DOMAIN font_dict :
                  n \notin DOMAIN fonts /\ doc.fonts[font_dict[n]].resolves # "nodict"}
  IN [n \in DOMAIN fonts \cup added |->
        IF n \in DOMAIN fonts THEN fonts[n] ELSE ResolvedFont(n, font_dict[n])]

\* op_do_xobject up to `subtype == b"Form"`: the stream id of the form, or None
DoTarget(operands, page_resources) ==
  IF Len(operands) >= 1 /\ operands[1].t = "Name" /\ page_resources # None
  THEN LET xobject_dict == doc.resources[page_resources[1]].XObject
           name == operands[1].s
       IN IF name \in DOMAIN xobject_dict /\ doc.xobjects[xobject_dict[name]].Subtype = "Form"
          THEN Some(xobject_dict[name])
          ELSE None
  ELSE None

\* op_do_xobject from op_save_state to the form's matrix
FormEnter(self, xobj) ==
  LET stream == doc.xobjects[xobj]
      s1 == op_save_state(self)
  IN IF stream.Matrix # None
     THEN [s1 EXCEPT !.gs.ctm = multiply(stream.Matrix[1], s1.gs.ctm)]
     ELSE s1

\* form_resources.as_ref().or(page_resources)
FormRes(xobj, page_resources) ==
  IF doc.xobjects[xobj].Resources # None THEN doc.xobjects[xobj].Resources
  ELSE page_resources

\* the operations a form's stream decodes to (none when it does not decode)
FormBody(xobj) ==
  IF doc.xobjects[xobj].content # None THEN doc.xobjects[xobj].content[1] ELSE <<>>

\* depth of nested op_do_xobject calls at which the native stack is exhausted
MaxCallDepth == 17

TraceEntry(op, ev, self, ref) ==
  [op |-> op, ev |-> ev, gs |-> self.gs, depth |-> Len(self.graphics_stack), ref |-> ref]

\* process_operation(op, res) called with `base` the enclosing op_do_xobject calls
Exec(op, res, base) ==
  LET target == DoTarget(op.operands, res)
  IN IF op.operator = "Do" /\ target # None
     THEN IF Len(base) >= MaxCallDepth
          THEN /\ call' = [call EXCEPT !.phase = "aborted",
                                       !.ret = <<"abort", "stack overflow">>]
               /\ UNCHANGED <<interp, font_cache, frames, trace>>
          ELSE LET form_res == FormRes(target[1], res)
                   s1 == FormEnter(interp, target[1])
               IN /\ interp' = s1
                  /\ font_cache' = IF form_res # None
                                   THEN load_fonts(font_cache, form_res[1])
                                   ELSE font_cache
                  /\ trace' = Append(trace, TraceEntry("Do", "enter", s1, 0))
                  /\ frames' = Append(base, [xobj |-> target[1], pc |-> 0,
                                             res |-> form_res, ref |-> Len(trace) + 1])
                  /\ UNCHANGED call
     ELSE LET s1 == process_operation(interp, font_cache, op, res)
          IN /\ interp' = s1
             /\ trace' = Append(trace, TraceEntry(op.operator, "op", s1, 0))
             /\ frames' = base
             /\ UNCHANGED <<font_cache, call>>

Running == call.phase = "run"

\* the next operation of the innermost form's content stream
FormStep ==
  /\ Running
  /\ frames # <<>>
  /\ LET top == frames[Len(frames)]
         body == FormBody(top.xobj)
     IN /\ top.pc < Len(body)
        /\ Exec(body[top.pc + 1], top.res,
                [frames EXCEPT ![Len(frames)].pc = top.pc + 1])
  /\ UNCHANGED <<doc, pages_cache, pc, log, fn>>

\* the end of a form's content stream: op_restore_state and return
FormReturn ==
  /\ Running
  /\ frames # <<>>
  /\ LET top == frames[Len(frames)]
         s1 == op_restore_state(interp)
     IN /\ top.pc = Len(FormBody(top.xobj))
        /\ interp' = s1
        /\ trace' = Append(trace, TraceEntry("Do", "return", s1, top.ref))
        /\ frames' = SubSeq(frames, 1, Len(frames) - 1)
  /\ UNCHANGED <<doc, pages_cache, font_cache, call, pc, log, fn>>

\* process_page's loop on an operation of the page's content stream
PageOp(op, max) ==
  /\ Running
  /\ frames = <<>>
  /\ pc < max
  /\ pc' = pc + 1
  /\ Exec(op, call.resources, frames)
  /\ UNCHANGED <<doc, pages_cache, log, fn>>

(***************************************************************************)
(* document.rs: extract_page, page, pages                                  *)
(***************************************************************************)
Page(page_number, width, height, doctop_offset, self) ==
  [page_number |-> page_number, width |-> width, height |-> height,
   doctop_offset |-> doctop_offset, chars |-> self.chars, lines |-> self.lines,
   rects |-> self.rects, curves |-> self.curves]

NoCall ==
  [op |-> "none", n |-> 0, i |-> 0, phase |-> "idle", ret |-> <<>>, val |-> <<>>,
   resources |-> None, seq |-> 0]

\* extract_page up to process_page's loop: [interp, fonts, resources, ok]
BeginExtract(page_number, fonts) ==
  LET idx == page_number - 1
      page_id == doc.page_ids[idx + 1]
      dims == get_page_dimensions(page_id)
      resources == get_page_resources(page_id)
  IN [interp |-> InterpreterNew(dims[2], DoctopOffset(idx)),
      fonts |-> IF resources # None THEN load_fonts(fonts, resources[1]) ELSE fonts,
      resources |-> resources,
      ok |-> doc.nodes[page_id].content # None]

\* extract_page(i) is entered by the call c (page or pages)
StartExtract(c, i) ==
  IF i - 1 \notin 0..(Len(doc.page_ids) - 1)
  THEN \* self.page_ids[idx] panics
       /\ call' = [c EXCEPT !.phase = "aborted", !.ret = <<"abort", "index out of bounds">>]
       /\ UNCHANGED <<interp, font_cache, frames, pc, trace>>
  ELSE LET b == BeginExtract(i, font_cache)
       IN /\ font_cache' = b.fonts
          /\ interp' = b.interp
          /\ frames' = <<>>
          /\ pc' = 0
          /\ trace' = <<>>
          /\ call' = IF b.ok
                     THEN [c EXCEPT !.i = i, !.phase = "run", !.resources = b.resources]
                     ELSE [c EXCEPT !.i = i, !.phase = "returned",
                                    !.ret = <<"Err", "ContentStream">>]

CanCall == call.phase \in {"idle", "returned"} /\ call.seq < MaxCalls

\* Document::page(page_number)
PageCall(page_number) ==
  /\ CanCall
  /\ LET c == [NoCall EXCEPT !.op = "page", !.n = page_number, !.seq = call.seq + 1]
     IN IF PageOutOfRange(page_number)
        THEN /\ call' = [c EXCEPT !.phase = "returned",
                                  !.ret = <<"Err", "PageNotFound", page_number>>]
             /\ UNCHANGED <<interp, font_cache, frames, pc, trace>>
        ELSE IF CacheContains(pages_cache, page_number)
        THEN /\ call' = [c EXCEPT !.phase = "returned", !.ret = <<"Ok">>,
                                  !.val = <<pages_cache[page_number]>>]
             /\ UNCHANGED <<interp, font_cache, frames, pc, trace>>
        ELSE StartExtract(c, page_number)
  /\ UNCHANGED <<doc, pages_cache, log, fn>>

\* Document::pages(): entry
PagesCall ==
  /\ CanCall
  /\ call' = [NoCall EXCEPT !.op = "pages", !.i = 1, !.phase = "loop", !.seq = call.seq + 1]
  /\ UNCHANGED <<doc, pages_cache, font_cache, interp, frames, pc, trace, log, fn>>

\* Document::pages(): one iteration of `for i in 1..=count`, then the result
PagesLoop ==
  /\ call.phase = "loop"
  /\ IF call.i > page_count
     THEN /\ call' = [call EXCEPT !.phase = "returned", !.ret = <<"Ok">>,
                                  !.val = [k \in 1..page_count |-> pages_cache[k]]]
          /\ UNCHANGED <<interp, font_cache, frames, pc, trace>>
     ELSE IF CacheContains(pages_cache, call.i)
     THEN /\ call' = [call EXCEPT !.i = call.i + 1]
          /\ UNCHANGED <<interp, font_cache, frames, pc, trace>>
     ELSE StartExtract(call, call.i)
  /\ UNCHANGED <<doc, pages_cache, log, fn>>

\* process_page's loop on the next operation of a page whose stream is given
ContentStep ==
  /\ Running
  /\ frames = <<>>
  /\ LET content == doc.nodes[doc.page_ids[call.i]].content[1]
     IN /\ pc < Len(content)
        /\ pc' = pc + 1
        /\ Exec(content[pc + 1], call.resources, frames)
  /\ UNCHANGED <<doc, pages_cache, log, fn>>

\* process_page returns Ok; extract_page builds the Page; the caller caches it
FinishExtract ==
  LET dims == get_page_dimensions(doc.page_ids[call.i])
      page == Page(call.i, dims[1], dims[2], interp.doctop_offset, interp)
      cache == CacheInsert(pages_cache, call.i, page)
  IN /\ pages_cache' = cache
     /\ log' = Append(log, page)
     /\ call' = IF call.op = "pages"
                THEN [call EXCEPT !.phase = "loop", !.i = call.i + 1]
                ELSE [call EXCEPT !.phase = "returned", !.ret = <<"Ok">>,
                                  !.val = <<cache[call.i]>>]
     /\ UNCHANGED <<doc, font_cache, interp, frames, pc, trace, fn>>

\* the end of a given content stream
ContentEnd ==
  /\ Running
  /\ frames = <<>>
  /\ pc = Len(doc.nodes[doc.page_ids[call.i]].content[1])
  /\ FinishExtract

\* the end of an arbitrary content stream
StreamEnd ==
  /\ Running
  /\ frames = <<>>
  /\ FinishExtract

(***************************************************************************)
(* The documents and operands the model is run on                          *)
(***************************************************************************)
FontHelv ==
  [FontInfoDefault EXCEPT !.base_font = "Helvetica", !.encoding = NamedEncoding("WinAnsi"),
                          !.widths = (32 :> 500) @@ (65 :> 500) @@ (66 :> 1000)]

FontUni ==
  [FontInfoDefault EXCEPT !.base_font = "Symbolic", !.default_width = 500,
                          !.to_unicode = (65 :> <<946>>) @@ (66 :> <<102, 105>>),
                          !.encoding = CustomEncoding("WinAnsi", (65 :> 66) @@ (200 :> 8364))]

FontCid ==
  [FontInfoDefault EXCEPT !.base_font = "Composite", !.is_cid = TRUE, !.bytes_per_char = 2,
                          !.encoding = NamedEncoding("Identity")]

FontObjects ==
  <<[resolves |-> "ok", info |-> FontHelv],
    [resolves |-> "ok", info |-> FontUni],
    [resolves |-> "err", info |-> FontInfoDefault],
    [resolves |-> "nodict", info |-> FontInfoDefault],
    [resolves |-> "ok", info |-> FontCid]>>

Resources(font, xobject, extgstate) ==
  [Font |-> font, XObject |-> xobject, ExtGState |-> extgstate]

Node(parent, media_box, crop_box, resources, content) ==
  [Parent |-> parent, MediaBox |-> media_box, CropBox |-> crop_box,
   Resources |-> resources, content |-> content]

XObject(subtype, matrix, resources, content) ==
  [Subtype |-> subtype, Matrix |-> matrix, Resources |-> resources, content |-> content]

Op0(o) == Operation(o, <<>>)

Op1(o, x) == Operation(o, <<Integer(x)>>)

Op2(o, x, y) == Operation(o, <<Integer(x), Integer(y)>>)

Op6(o, m) ==
  Operation(o, <<Integer(m.a), Integer(m.b), Integer(m.c), Integer(m.d),
                 Integer(m.e), Integer(m.f)>>)

OpDo(name) == Operation("Do", <<Name(name)>>)

OpTf(name, size) == Operation("Tf", <<Name(name), Integer(size)>>)

OpTj(bytes) == Operation("Tj", <<String(bytes)>>)

\* the form XObjects of the graphics documents
GfxForms ==
  <<XObject("Form", Some(scale(2, 2)), None, Some(<<Op6("cm", translate(10, 20)), Op1("w", 3)>>)),
    XObject("Form", None, None, Some(<<Op0("Q"), Op6("cm", scale(2, 2))>>)),
    XObject("Form", None, None, Some(<<Op0("q"), Op1("w", 5)>>)),
    XObject("Form", None, None, Some(<<Op1("w", 7), OpDo("X2")>>)),
    XObject("Form", Some(translate(1, 1)), Some(2), Some(<<OpDo("X2")>>)),
    XObject("Form", None, Some(3), Some(<<Op0("q"), OpDo("X1")>>)),
    XObject("Image", None, None, None),
    XObject("Form", Some(scale(2, 2)), None, None)>>

\* resource dictionaries 1.. of the graphics documents; x1, x2: what the page binds
GfxResources(x1, x2) ==
  <<Resources(EmptyMap, ("X1" :> x1) @@ ("X2" :> x2), EmptyMap),
    Resources(EmptyMap, ("X2" :> 6), EmptyMap),
    Resources(EmptyMap, ("X1" :> 5), EmptyMap)>>

LetterBox == <<0, 0, 200, 100>>

\* one page (node 2) under the root (node 1); the page's stream is arbitrary
OnePageDoc(root_res, page_res, resources, xobjects) ==
  [page_ids |-> <<2>>,
   nodes |-> <<Node(None, Some(LetterBox), None, root_res, Some(<<>>)),
               Node(Some(1), None, None, page_res, Some(<<>>))>>,
   resources |-> resources, fonts |-> FontObjects, xobjects |-> xobjects]

GfxDocs ==
  {OnePageDoc(None, Some(1), GfxResources(x[1], x[2]), GfxForms) :
     x \in {<<1, 2>>, <<3, 4>>, <<8, 5>>, <<7, 3>>}}

TextResources ==
  <<Resources(("F1" :> 1) @@ ("F2" :> 2) @@ ("F3" :> 3) @@ ("F4" :> 4) @@ ("F5" :> 5),
              EmptyMap,
              ("GS1" :> [LW |-> Some(4), LC |-> None, LJ |-> None, Font |-> Some(<<"F2", 4>>)])),
    Resources(EmptyMap, EmptyMap, EmptyMap)>>

\* a page with fonts, a page whose resources define no font, a page with no resources
TextDocs ==
  {OnePageDoc(None, Some(1), TextResources, <<>>),
   OnePageDoc(Some(2), None, TextResources, <<>>),
   OnePageDoc(None, None, TextResources, <<>>)}

PathDocs == {OnePageDoc(None, None, <<>>, <<>>)}

\* the state in which extract_page(page_number) of a fresh Document runs the interpreter
InitExtracting(docs) ==
  /\ doc \in docs
  /\ pages_cache = EmptyMap
  /\ LET b == BeginExtract(1, EmptyMap)
     IN /\ font_cache = b.fonts
        /\ interp = b.interp
        /\ call = [NoCall EXCEPT !.op = "page", !.n = 1, !.i = 1, !.phase = "run",
                                 !.resources = b.resources, !.seq = 1]
  /\ frames = <<>>
  /\ pc = 0
  /\ trace = <<>>
  /\ log = <<>>
  /\ fn = NoFn

(***************************************************************************)
(* SpecGfx: graphics state, q/Q and Form XObjects, on arbitrary streams    *)
(***************************************************************************)
MaxGfxOps == 4

GfxSave == PageOp(Op0("q"), MaxGfxOps)

GfxRestore == PageOp(Op0("Q"), MaxGfxOps)

GfxConcat == PageOp(Op6("cm", scale(2, 2)), MaxGfxOps)

GfxLineWidth == PageOp(Op1("w", 2), MaxGfxOps)

GfxColor == PageOp(Operation("RG", <<Integer(1), Integer(0), Integer(0)>>), MaxGfxOps)

GfxDo == \E name \in {"X1", "X2"} : PageOp(OpDo(name), MaxGfxOps)

InitGfx == InitExtracting(GfxDocs)

NextGfx ==
  \/ GfxSave
  \/ GfxRestore
  \/ GfxConcat
  \/ GfxLineWidth
  \/ GfxColor
  \/ GfxDo
  \/ FormStep
  \/ FormReturn
  \/ StreamEnd

SpecGfx == InitGfx /\ [][NextGfx]_vars

(***************************************************************************)
(* SpecText: text state and text showing, on arbitrary streams             *)
(***************************************************************************)
MaxTextOps == 3

TextOps ==
  {Op0("BT"), Op0("ET"), OpTf("F1", 2), OpTf("F2", 4),
   Op1("Tz", -100), Op1("Tc", 1), Op1("Tw", 2),
   Op2("Td", 10, 20), Op6("Tm", Matrix(2, 0, 0, 2, 10, 10)),
   Op6("cm", Matrix(1, 0, 0, -1, 0, 100)),
   Operation("gs", <<Name("GS1")>>)}

ShowOps ==
  {OpTj(<<65>>), OpTj(<<66, 32>>),
   Operation("TJ", <<Array(<<String(<<65>>), Integer(-500), String(<<66>>)>>)>>),
   Operation("'", <<String(<<65>>)>>),
   Operation("\"", <<Integer(2), Integer(1), String(<<66>>)>>)}

\* an operator that sets text or graphics state
TextSet == \E op \in TextOps : PageOp(op, MaxTextOps)

\* a text-showing operator: Tj, TJ, ', "
TextShow == \E op \in ShowOps : PageOp(op, MaxTextOps)

InitText == InitExtracting(TextDocs)

NextText ==
  \/ TextSet
  \/ TextShow
  \/ StreamEnd

SpecText == InitText /\ [][NextText]_vars

(***************************************************************************)
(* SpecPath: path construction and painting, on arbitrary streams          *)
(***************************************************************************)
MaxPathOps == 3

ConstructOps ==
  {Op2("m", 10, 10), Op2("l", 30, 10), Op2("l", 10, 40), Op0("h"),
   Operation("re", <<Integer(5), Integer(5), Integer(20), Integer(-10)>>),
   Operation("c", <<Integer(1), Integer(2), Integer(3), Integer(4), Integer(5), Integer(6)>>),
   Operation("v", <<Integer(1), Integer(2), Integer(3), Integer(4)>>),
   Operation("y", <<Integer(1), Integer(2), Integer(3), Integer(4)>>)}

PaintOperators == {"S", "s", "f", "F", "f*", "B", "B*", "b", "b*", "n"}

\* a path-construction operator: m l c v y h re
PathConstruct == \E op \in ConstructOps : PageOp(op, MaxPathOps)

\* a path-painting operator
PathPaint == \E o \in PaintOperators : PageOp(Op0(o), MaxPathOps)

PathConcat == PageOp(Op6("cm", Matrix(1, 0, 0, -1, 0, 100)), MaxPathOps)

InitPath == InitExtracting(PathDocs)

NextPath ==
  \/ PathConstruct
  \/ PathPaint
  \/ PathConcat
  \/ StreamEnd

SpecPath == InitPath /\ [][NextPath]_vars

(***************************************************************************)
(* SpecDoc: Document::page and Document::pages on documents of three pages *)
(***************************************************************************)
ContentText ==
  <<Op0("BT"), OpTf("F1", 2), Op2("Td", 10, 20), OpTj(<<65, 66>>), Op0("ET")>>

ContentMixed ==
  <<Op2("m", 10, 10), Op2("l", 30, 10), Op0("S"), OpDo("X1")>>

DocForms ==
  <<XObject("Form", Some(translate(5, 5)), None,
            Some(<<Op0("BT"), OpTf("F1", 4), OpTj(<<65>>), Op0("ET")>>))>>

DocResources == <<Resources(("F1" :> 1), ("X1" :> 1), EmptyMap)>>

\* MediaBox of page 1 (absent: inherited from the root), streams of pages 1 and 2
ThreePageDoc(box1, content1, content2) ==
  [page_ids |-> <<2, 3, 4>>,
   nodes |-> <<Node(None, Some(LetterBox), None, Some(1), Some(<<>>)),
               Node(Some(1), box1, None, None, content1),
               Node(Some(1), Some(<<0, 120, 200, 0>>), None, Some(1), content2),
               Node(Some(1), None, Some(<<0, 0, 200, 80>>), None, Some(ContentText))>>,
   resources |-> DocResources, fonts |-> FontObjects, xobjects |-> DocForms]

DocDocs ==
  {ThreePageDoc(b, c1, c2) :
     b \in {None, Some(<<0, 0, 200, 150>>)},
     c1 \in {None, Some(ContentText)},
     c2 \in {None, Some(ContentMixed)}}

\* the state after Document::from_lopdf
InitDoc ==
  /\ doc \in DocDocs
  /\ pages_cache = EmptyMap
  /\ font_cache = EmptyMap
  /\ call = NoCall
  /\ interp = InterpreterNew(0, 0)
  /\ frames = <<>>
  /\ pc = 0
  /\ trace = <<>>
  /\ log = <<>>
  /\ fn = NoFn

DocPage == \E n \in 0..(page_count + 1) : PageCall(n)

NextDoc ==
  \/ DocPage
  \/ PagesCall
  \/ PagesLoop
  \/ ContentStep
  \/ FormStep
  \/ FormReturn
  \/ ContentEnd

SpecDoc == InitDoc /\ [][NextDoc]_vars

(***************************************************************************)
(* SpecDecode: FontInfo::decode_char on drawn fonts and codes              *)
(***************************************************************************)
DecodeToUnicode ==
  {<<>>, (65 :> <<946>>) @@ (129 :> <<8364>>) @@ (200 :> <<102, 105>>) @@ (300 :> <<97>>)}

DecodeOverrides == (65 :> 66) @@ (129 :> 8226) @@ (141 :> 97) @@ (300 :> 98)

DecodeEncodings ==
  {NamedEncoding(k) : k \in {"WinAnsi", "MacRoman", "Standard", "PDFDoc", "Identity", "MacExpert"}}
  \cup {CustomEncoding(b, DecodeOverrides) : b \in {"WinAnsi", "Standard"}}

DecodeCodes ==
  {0, 65, 127, 128, 129, 141, 160, 164, 173, 200, 255, 256, 300, 55296, 65533, 1114112}

InitDecode ==
  /\ doc = OnePageDoc(None, None, <<>>, <<>>)
  /\ pages_cache = EmptyMap
  /\ font_cache = EmptyMap
  /\ call = NoCall
  /\ interp = InterpreterNew(0, 0)
  /\ frames = <<>>
  /\ pc = 0
  /\ trace = <<>>
  /\ log = <<>>
  /\ \E tu \in DecodeToUnicode, enc \in DecodeEncodings, code \in DecodeCodes :
       fn = [name |-> "decode_char",
             args |-> <<[FontInfoDefault EXCEPT !.to_unicode = tu, !.encoding = enc], code>>,
             ret |-> <<>>, done |-> FALSE]

DecodeChar ==
  /\ fn.name = "decode_char"
  /\ ~fn.done
  /\ fn' = [fn EXCEPT !.ret = decode_char(fn.args[1], fn.args[2]), !.done = TRUE]
  /\ UNCHANGED <<doc, pages_cache, font_cache, call, interp, frames, pc, trace, log>>

NextDecode == DecodeChar

SpecDecode == InitDecode /\ [][NextDecode]_vars

(***************************************************************************)
(* slices: stable sorting and filtering as the standard library does them  *)
(***************************************************************************)
\* slice::sort_by (stable) with the strict order Less: the permutation applied
SortPerm(s, Less(_, _)) ==
  LET n == Len(s)
      before(i) == {j \in 1..n : Less(s[j], s[i]) \/ (~Less(s[i], s[j]) /\ j < i)}
  IN [k \in 1..n |-> CHOOSE i \in 1..n : Cardinality(before(i)) = k - 1]

SortBy(s, Less(_, _)) ==
  LET p == SortPerm(s, Less) IN [k \in 1..Len(s) |-> s[p[k]]]

\* iter().enumerate().filter(..): the positions of the elements that satisfy P
Positions(s, P(_)) == SelectSeq([i \in 1..Len(s) |-> i], LAMBDA i : P(s[i]))

\* Vec::dedup_by(|a, b| (a - b).abs() < tol): a is dropped when it is within tol
\* of the element retained before it
RECURSIVE dedup_by(_, _)
dedup_by(s, tol) ==
  IF Len(s) <= 1 THEN s
  ELSE LET d == dedup_by(SubSeq(s, 1, Len(s) - 1), tol)
           a == s[Len(s)]
       IN IF Abs(a - d[Len(d)]) < tol THEN d ELSE Append(d, a)

RECURSIVE Concat(_)
Concat(ss) == IF ss = <<>> THEN <<>> ELSE Head(ss) \o Concat(Tail(ss))

(***************************************************************************)
(* geometry/bbox.rs, geometry/lines.rs                                     *)
(***************************************************************************)
BBox(x0, top, x1, bottom) == [x0 |-> x0, top |-> top, x1 |-> x1, bottom |-> bottom]

contains_point(self, x, y) ==
  x >= self.x0 /\ x <= self.x1 /\ y >= self.top /\ y <= self.bottom

union(self, other) ==
  BBox(Min(self.x0, other.x0), Min(self.top, other.top),
       Max(self.x1, other.x1), Max(self.bottom, other.bottom))

horizontal(x0, x1, y, width) ==
  [x0 |-> Min(x0, x1), top |-> y, x1 |-> Max(x0, x1), bottom |-> y,
   width |-> width, orientation |-> "Horizontal"]

vertical(x, top, bottom, width) ==
  [x0 |-> x, top |-> Min(top, bottom), x1 |-> x, bottom |-> Max(top, bottom),
   width |-> width, orientation |-> "Vertical"]

length(self) ==
  IF self.orientation = "Horizontal" THEN Abs(self.x1 - self.x0)
  ELSE Abs(self.bottom - self.top)

is_horizontal(self) == self.orientation = "Horizontal"

is_vertical(self) == self.orientation = "Vertical"

SnapWalk_previous(vals, tolerance) ==
  [k \in 1..Len(vals) |->
     IF k > 1 /\ Abs(vals[k] - vals[k - 1]) <= tolerance THEN vals[k - 1] ELSE vals[k]]

\* snap_edges, one pass of the while loops: vals are the sorted coordinates; the
\* result gives each the coordinate of the first edge of its group
RECURSIVE SnapWalk(_, _)
SnapWalk(vals, tolerance) ==
  IF Len(vals) <= 1 THEN vals
  ELSE LET b == SnapWalk(SubSeq(vals, 1, Len(vals) - 1), tolerance)
           base == b[Len(b)]
           v == vals[Len(vals)]
       IN Append(b, IF Abs(v - base) <= tolerance THEN base ELSE v)

snap_edges(edges, x_tolerance, y_tolerance) ==
  LET h == Positions(edges, is_horizontal)
      hs == SortBy(h, LAMBDA a, b : edges[a].top < edges[b].top)
      hy == SnapWalk([k \in 1..Len(hs) |-> edges[hs[k]].top], y_tolerance)
      v == Positions(edges, is_vertical)
      vs == SortBy(v, LAMBDA a, b : edges[a].x0 < edges[b].x0)
      vx == SnapWalk([k \in 1..Len(vs) |-> edges[vs[k]].x0], x_tolerance)
  IN [i \in 1..Len(edges) |->
        IF is_horizontal(edges[i])
        THEN LET k == CHOOSE k \in 1..Len(hs) : hs[k] = i
             IN [edges[i] EXCEPT !.top = hy[k], !.bottom = hy[k]]
        ELSE LET k == CHOOSE k \in 1..Len(vs) : vs[k] = i
             IN [edges[i] EXCEPT !.x0 = vx[k], !.x1 = vx[k]]]

\* merge_collinear_edges, the loop over the sorted edges; each merged edge is
\* kept with the input edges that went into it (parts), in the order they did
RECURSIVE MergeLoop(_, _, _)
MergeLoop(sorted, tolerance, is_h) ==
  IF Len(sorted) = 1 THEN <<[edge |-> sorted[1], parts |-> <<sorted[1]>>]>>
  ELSE LET merged == MergeLoop(SubSeq(sorted, 1, Len(sorted) - 1), tolerance, is_h)
           last == merged[Len(merged)].edge
           edge == sorted[Len(sorted)]
           same_line == IF is_h THEN Abs(last.top - edge.top) <= tolerance
                        ELSE Abs(last.x0 - edge.x0) <= tolerance
           overlaps == IF is_h THEN edge.x0 <= last.x1 + tolerance
                       ELSE edge.top <= last.bottom + tolerance
           ext == IF is_h THEN [last EXCEPT !.x1 = Max(last.x1, edge.x1),
                                            !.width = Max(last.width, edge.width)]
                  ELSE [last EXCEPT !.bottom = Max(last.bottom, edge.bottom),
                                    !.width = Max(last.width, edge.width)]
       IN IF same_line /\ overlaps
          THEN [merged EXCEPT ![Len(merged)] =
                  [edge |-> ext, parts |-> Append(@.parts, edge)]]
          ELSE Append(merged, [edge |-> edge, parts |-> <<edge>>])

MergeGroups(edges, tolerance, is_h) ==
  IF edges = <<>> THEN <<>>
  ELSE MergeLoop(
         IF is_h
         THEN SortBy(edges, LAMBDA a, b : a.top < b.top \/ (a.top = b.top /\ a.x0 < b.x0))
         ELSE SortBy(edges, LAMBDA a, b : a.x0 < b.x0 \/ (a.x0 = b.x0 /\ a.top < b.top)),
         tolerance, is_h)

merge_collinear_edges(edges, tolerance, is_h) ==
  LET g == MergeGroups(edges, tolerance, is_h) IN [k \in 1..Len(g) |-> g[k].edge]

merge_edges(edges, tolerance) ==
  merge_collinear_edges(SelectSeq(edges, is_horizontal), tolerance, TRUE)
    \o merge_collinear_edges(SelectSeq(edges, is_vertical), tolerance, FALSE)

\* dedup_points: the read/write walk
RECURSIVE dedup_points(_, _, _)
dedup_points(points, x_tol, y_tol) ==
  IF Len(points) <= 1 THEN points
  ELSE LET kept == dedup_points(SubSeq(points, 1, Len(points) - 1), x_tol, y_tol)
           w == kept[Len(kept)]
           r == points[Len(points)]
       IN IF Abs(r[1] - w[1]) > x_tol \/ Abs(r[2] - w[2]) > y_tol
          THEN Append(kept, r) ELSE kept

find_intersections(edges, x_tolerance, y_tolerance) ==
  LET horizontals == SelectSeq(edges, is_horizontal)
      verticals == SelectSeq(edges, is_vertical)
      crossing(h, v) ==
        /\ h.top >= v.top - y_tolerance /\ h.top <= v.bottom + y_tolerance
        /\ v.x0 >= h.x0 - x_tolerance /\ v.x0 <= h.x1 + x_tolerance
      row(i) == LET h == horizontals[i]
                    vs == SelectSeq(verticals, LAMBDA v : crossing(h, v))
                IN [k \in 1..Len(vs) |-> <<vs[k].x0, h.top>>]
      intersections == Concat([i \in 1..Len(horizontals) |-> row(i)])
  IN dedup_points(
       SortBy(intersections,
              LAMBDA a, b : a[2] < b[2] \/ (a[2] = b[2] /\ a[1] < b[1])),
       x_tolerance, y_tolerance)

(***************************************************************************)
(* table/settings.rs, table/detect.rs                                      *)
(***************************************************************************)
TableSettingsDefault ==
  [vertical_strategy |-> "Lines", horizontal_strategy |-> "Lines",
   snap_tolerance |-> 3, snap_x_tolerance |-> None, snap_y_tolerance |-> None,
   join_tolerance |-> 3, join_x_tolerance |-> None, join_y_tolerance |-> None,
   edge_min_length |-> 3, min_words_vertical |-> 3, min_words_horizontal |-> 1,
   intersection_tolerance |-> 3,
   intersection_x_tolerance |-> None, intersection_y_tolerance |-> None,
   text_tolerance |-> 3, text_x_tolerance |-> None, text_y_tolerance |-> None,
   explicit_vertical_lines |-> <<>>, explicit_horizontal_lines |-> <<>>]

unwrap_or(opt, default) == IF opt = None THEN default ELSE opt[1]

snap_x(self) == unwrap_or(self.snap_x_tolerance, self.snap_tolerance)

snap_y(self) == unwrap_or(self.snap_y_tolerance, self.snap_tolerance)

join_x(self) == unwrap_or(self.join_x_tolerance, self.join_tolerance)

join_y(self) == unwrap_or(self.join_y_tolerance, self.join_tolerance)

intersection_x(self) == unwrap_or(self.intersection_x_tolerance, self.intersection_tolerance)

intersection_y(self) == unwrap_or(self.intersection_y_tolerance, self.intersection_tolerance)

text_x(self) == unwrap_or(self.text_x_tolerance, self.text_tolerance)

text_y(self) == unwrap_or(self.text_y_tolerance, self.text_tolerance)

\* objects.rs, Line::is_horizontal / is_vertical: |d| < 1e-6 on whole coordinates
line_is_horizontal(line) == line.y0 = line.y1

line_is_vertical(line) == line.x0 = line.x1

\* collect_edges for the strategies Lines, LinesStrict and Explicit (the edges
\* of Strategy::Text are means of word positions and are not modelled)
collect_edges(page, settings) ==
  LET vlines == SelectSeq(page.lines, line_is_vertical)
      hlines == SelectSeq(page.lines, line_is_horizontal)
      v == IF settings.vertical_strategy \in {"Lines", "LinesStrict"}
           THEN [k \in 1..Len(vlines) |->
                   vertical(vlines[k].x0, vlines[k].top, vlines[k].bottom, vlines[k].width)]
                \o Concat([k \in 1..Len(page.rects) |->
                     LET r == page.rects[k]
                     IN <<vertical(r.x0, r.top, r.bottom, r.linewidth),
                          vertical(r.x1, r.top, r.bottom, r.linewidth)>>])
           ELSE [k \in 1..Len(settings.explicit_vertical_lines) |->
                   vertical(settings.explicit_vertical_lines[k], 0, page.height, 1)]
      h == IF settings.horizontal_strategy \in {"Lines", "LinesStrict"}
           THEN [k \in 1..Len(hlines) |->
                   horizontal(hlines[k].x0, hlines[k].x1, hlines[k].top, hlines[k].width)]
                \o Concat([k \in 1..Len(page.rects) |->
                     LET r == page.rects[k]
                     IN <<horizontal(r.x0, r.x1, r.top, r.linewidth),
                          horizontal(r.x0, r.x1, r.bottom, r.linewidth)>>])
           ELSE [k \in 1..Len(settings.explicit_horizontal_lines) |->
                   horizontal(0, page.width, settings.explicit_horizontal_lines[k], 1)]
  IN v \o h

has_point(points, x, y, tol_x, tol_y) ==
  \E k \in 1..Len(points) :
    Abs(points[k][1] - x) <= tol_x /\ Abs(points[k][2] - y) <= tol_y

has_edge_between(edges, start, end, fixed, is_h, tol_x, tol_y) ==
  \E k \in 1..Len(edges) :
    LET e == edges[k]
    IN IF is_h
       THEN /\ is_horizontal(e) /\ Abs(e.top - fixed) <= tol_y
            /\ e.x0 <= start + tol_x /\ e.x1 >= end - tol_x
       ELSE /\ is_vertical(e) /\ Abs(e.x0 - fixed) <= tol_x
            /\ e.top <= start + tol_y /\ e.bottom >= end - tol_y

CellRect(bbox, row_idx, col_idx) == [bbox |-> bbox, row_idx |-> row_idx, col_idx |-> col_idx]

build_cells(intersections, edges, settings) ==
  LET tol_x == intersection_x(settings)
      tol_y == intersection_y(settings)
      lt(a, b) == a < b
      xs == dedup_by(SortBy([k \in 1..Len(intersections) |-> intersections[k][1]], lt), tol_x)
      ys == dedup_by(SortBy([k \in 1..Len(intersections) |-> intersections[k][2]], lt), tol_y)
      cell(i, j) ==
        LET x0 == xs[j + 1]
            x1 == xs[j + 2]
            y0 == ys[i + 1]
            y1 == ys[i + 2]
            corners == /\ has_point(intersections, x0, y0, tol_x, tol_y)
                       /\ has_point(intersections, x1, y0, tol_x, tol_y)
                       /\ has_point(intersections, x0, y1, tol_x, tol_y)
                       /\ has_point(intersections, x1, y1, tol_x, tol_y)
            has_top == has_edge_between(edges, x0, x1, y0, TRUE, tol_x, tol_y)
            has_bottom == has_edge_between(edges, x0, x1, y1, TRUE, tol_x, tol_y)
            has_left == has_edge_between(edges, y0, y1, x0, FALSE, tol_x, tol_y)
            has_right == has_edge_between(edges, y0, y1, x1, FALSE, tol_x, tol_y)
        IN IF corners /\ ((has_top /\ has_bottom) \/ (has_left /\ has_right))
           THEN <<CellRect(BBox(x0, y0, x1, y1), i, j)>>
           ELSE <<>>
  IN Concat([i \in 1..(Len(ys) - 1) |->
       Concat([j \in 1..(Len(xs) - 1) |-> cell(i - 1, j - 1)])])

ADJACENT_TOL == 1

cells_adjacent(a, b) ==
  LET tol == ADJACENT_TOL
      share_horizontal ==
        /\ \/ Abs(a.bbox.top - b.bbox.top) < tol
           \/ Abs(a.bbox.bottom - b.bbox.bottom) < tol
           \/ Abs(a.bbox.top - b.bbox.bottom) < tol
           \/ Abs(a.bbox.bottom - b.bbox.top) < tol
        /\ a.bbox.x0 < b.bbox.x1 + tol
        /\ a.bbox.x1 > b.bbox.x0 - tol
      share_vertical ==
        /\ \/ Abs(a.bbox.x0 - b.bbox.x0) < tol
           \/ Abs(a.bbox.x1 - b.bbox.x1) < tol
           \/ Abs(a.bbox.x0 - b.bbox.x1) < tol
           \/ Abs(a.bbox.x1 - b.bbox.x0) < tol
        /\ a.bbox.top < b.bbox.bottom + tol
        /\ a.bbox.bottom > b.bbox.top - tol
  IN share_horizontal \/ share_vertical

\* the union-find of find_contiguous_groups: the cells linked to cell i by at
\* most n unions
RECURSIVE Linked(_, _, _)
Linked(cells, i, n) ==
  IF n = 0 THEN {i}
  ELSE LET s == Linked(cells, i, n - 1)
       IN s \cup {j \in 1..Len(cells) :
                    \E k \in s : (IF k < j THEN cells_adjacent(cells[k], cells[j])
                                  ELSE k > j /\ cells_adjacent(cells[j], cells[k]))}

\* variant of the grouping that unions everything: all cells are one group
find_contiguous_groups_whole(cells) ==
  {1..Len(cells)}

\* find_contiguous_groups: the groups as index sets; each group lists its cells
\* in index order, the order of the groups is that of HashMap::into_values
find_contiguous_groups(cells) ==
  {Linked(cells, i, Len(cells)) : i \in 1..Len(cells)}

GroupCells(cells, g) ==
  LET idx == SortBy(SelectSeq([i \in 1..Len(cells) |-> i], LAMBDA i : i \in g),
                    LAMBDA a, b : a < b)
  IN [k \in 1..Len(idx) |-> cells[idx[k]]]

\* char::is_whitespace (the Unicode White_Space code points), as str::trim uses it
WHITE_SPACE ==
  (9..13) \cup {32, 133, 160, 5760} \cup (8192..8202) \cup {8232, 8233, 8239, 8287, 12288}

RECURSIVE trim_start(_)
trim_start(s) == IF s # <<>> /\ Head(s) \in WHITE_SPACE THEN trim_start(Tail(s)) ELSE s

RECURSIVE trim_end(_)
trim_end(s) ==
  IF s # <<>> /\ s[Len(s)] \in WHITE_SPACE THEN trim_end(SubSeq(s, 1, Len(s) - 1)) ELSE s

trim(s) == trim_end(trim_start(s))

\* extract_cell_text, the loop that joins the sorted characters
RECURSIVE CellTextLoop(_, _)
CellTextLoop(sorted, tol) ==
  IF Len(sorted) = 1 THEN [text |-> sorted[1].text, last_top |-> sorted[1].top]
  ELSE LET p == CellTextLoop(SubSeq(sorted, 1, Len(sorted) - 1), tol)
           ch == sorted[Len(sorted)]
       IN IF Abs(ch.top - p.last_top) > tol
          THEN [text |-> p.text \o <<10>> \o ch.text, last_top |-> ch.top]
          ELSE [text |-> p.text \o ch.text, last_top |-> p.last_top]

\* the centre of a character is ((x0 + x1) / 2, (top + bottom) / 2); the test is
\* made on doubled coordinates
extract_cell_text(page, cell_bbox, settings) ==
  LET twice == BBox(2 * cell_bbox.x0, 2 * cell_bbox.top, 2 * cell_bbox.x1, 2 * cell_bbox.bottom)
      chars == SelectSeq(page.chars,
                         LAMBDA c : contains_point(twice, c.x0 + c.x1, c.top + c.bottom))
      sorted == SortBy(chars, LAMBDA a, b : IF Abs(a.top - b.top) <= text_y(settings)
                                           THEN a.x0 < b.x0 ELSE a.top < b.top)
  IN IF chars = <<>> THEN <<>> ELSE trim(CellTextLoop(sorted, text_y(settings)).text)

\* variant of position_or_0 that counts the places from 1
position_or_0_one_based(hits) ==
  IF hits = {} THEN 0 ELSE CHOOSE k \in hits : \A m \in hits : k <= m

\* Iterator::position(..).unwrap_or(0), hits being the places (from 1) at which
\* the closure is true
position_or_0(hits) ==
  IF hits = {} THEN 0 ELSE (CHOOSE k \in hits : \A m \in hits : k <= m) - 1

TableCell(row, col, row_span, col_span, text, bbox) ==
  [row |-> row, col |-> col, row_span |-> row_span, col_span |-> col_span,
   text |-> text, bbox |-> bbox]

RECURSIVE UnionAll(_, _)
UnionAll(acc, group) ==
  IF group = <<>> THEN acc ELSE UnionAll(union(acc, Head(group).bbox), Tail(group))

\* group_cells_into_tables, the body of the loop over the groups
TableOfGroup(group, page, settings) ==
  LET lt(a, b) == a < b
      row_ys == dedup_by(SortBy([k \in 1..Len(group) |-> group[k].bbox.top], lt),
                         intersection_y(settings))
      col_xs == dedup_by(SortBy([k \in 1..Len(group) |-> group[k].bbox.x0], lt),
                         intersection_x(settings))
      table_cell(cell_rect) ==
        TableCell(
          position_or_0({k \in 1..Len(row_ys) :
                           Abs(row_ys[k] - cell_rect.bbox.top) < intersection_y(settings)}),
          position_or_0({k \in 1..Len(col_xs) :
                           Abs(col_xs[k] - cell_rect.bbox.x0) < intersection_x(settings)}),
          1, 1, extract_cell_text(page, cell_rect.bbox, settings), cell_rect.bbox)
  IN [bbox |-> UnionAll(group[1].bbox, group),
      cells |-> [k \in 1..Len(group) |-> table_cell(group[k])],
      row_count |-> Len(row_ys), col_count |-> Len(col_xs)]

\* the sequences that list every member of S once
Orderings(S) ==
  {s \in [1..Cardinality(S) -> S] : \A a, b \in 1..Cardinality(S) : s[a] = s[b] => a = b}

\* group_cells_into_tables: one value for every order in which the HashMap of
\* find_contiguous_groups may yield the groups
group_cells_into_tables(cells, page, settings) ==
  IF cells = <<>> THEN {<<>>}
  ELSE {[k \in 1..Len(o) |-> TableOfGroup(GroupCells(cells, o[k]), page, settings)] :
          o \in Orderings(find_contiguous_groups(cells))}

\* detect_tables, steps 1 to 6: the merged edges and the cells built from them
DetectEdges(page, settings) ==
  LET collected == collect_edges(page, settings)
      kept == SelectSeq(collected, LAMBDA e : length(e) >= settings.edge_min_length)
  IN IF kept = <<>> THEN <<>>
     ELSE merge_edges(snap_edges(kept, snap_x(settings), snap_y(settings)),
                      Max(join_x(settings), join_y(settings)))

DetectCells(page, settings) ==
  LET edges == DetectEdges(page, settings)
      intersections == find_intersections(edges, intersection_x(settings),
                                          intersection_y(settings))
  IN IF edges = <<>> \/ Len(intersections) < 4 THEN <<>>
     ELSE build_cells(intersections, edges, settings)

\* detect_tables: the possible results
detect_tables(page, settings) ==
  group_cells_into_tables(DetectCells(page, settings), page, settings)

(***************************************************************************)
(* table/mod.rs, table/merge.rs                                            *)
(***************************************************************************)
\* to_grid, the loop over the cells; grid[r + 1][c + 1] is the slot (r, c)
RECURSIVE GridLoop(_, _, _)
GridLoop(self, grid, k) ==
  IF k > Len(self.cells) THEN grid
  ELSE LET cell == self.cells[k]
           text == IF cell.text = <<>> THEN None ELSE Some(cell.text)
           rows == cell.row..(Min(cell.row + cell.row_span, self.row_count) - 1)
           cols == cell.col..(Min(cell.col + cell.col_span, self.col_count) - 1)
       IN IF cell.row < self.row_count /\ cell.col < self.col_count
          THEN GridLoop(self,
                 [r \in 1..self.row_count |-> [c \in 1..self.col_count |->
                    IF (r - 1) \in rows /\ (c - 1) \in cols THEN text ELSE grid[r][c]]],
                 k + 1)
          ELSE GridLoop(self, grid, k + 1)

to_grid(self) ==
  GridLoop(self, [r \in 1..self.row_count |-> [c \in 1..self.col_count |-> None]], 1)

\* cells.iter().position(|c| c.row == row && c.col == col), 0 when there is none
FindCell(cells, row, col) ==
  IF \E k \in 1..Len(cells) : cells[k].row = row /\ cells[k].col = col
  THEN CHOOSE k \in 1..Len(cells) :
         /\ cells[k].row = row /\ cells[k].col = col
         /\ \A m \in 1..(k - 1) : ~(cells[m].row = row /\ cells[m].col = col)
  ELSE 0

\* the second loop of detect_horizontal_merges / detect_vertical_merges
RECURSIVE ApplyMerges(_, _, _)
ApplyMerges(cells, merges, is_h) ==
  IF merges = <<>> THEN cells
  ELSE LET m == Head(merges)
           k == FindCell(cells, m.row, m.col)
           cell == cells[k]
           sep == IF is_h THEN <<32>> ELSE <<10>>
           text == IF m.text # <<>>
                   THEN (IF cell.text # <<>> THEN cell.text \o sep ELSE <<>>) \o m.text
                   ELSE cell.text
           grown == IF is_h
                    THEN [cell EXCEPT !.col_span = @ + 1, !.bbox = union(@, m.bbox),
                                      !.text = text]
                    ELSE [cell EXCEPT !.row_span = @ + 1, !.bbox = union(@, m.bbox),
                                      !.text = text]
       IN ApplyMerges(IF k = 0 THEN cells ELSE [cells EXCEPT ![k] = grown],
                      Tail(merges), is_h)

detect_horizontal_merges(table, edges, tolerance) ==
  LET pair(row, col) ==
        LET l == FindCell(table.cells, row, col)
            r == FindCell(table.cells, row, col + 1)
            left == table.cells[l]
            right == table.cells[r]
            has_edge == \E k \in 1..Len(edges) :
                          /\ is_vertical(edges[k])
                          /\ Abs(edges[k].x0 - left.bbox.x1) <= tolerance
                          /\ edges[k].top <= left.bbox.top + tolerance
                          /\ edges[k].bottom >= left.bbox.bottom - tolerance
        IN IF l # 0 /\ r # 0 /\ ~has_edge
           THEN <<[row |-> row, col |-> col, bbox |-> right.bbox, text |-> right.text]>>
           ELSE <<>>
      merges == Concat([row \in 1..table.row_count |->
                  Concat([col \in 1..(table.col_count - 1) |-> pair(row - 1, col - 1)])])
  IN [table EXCEPT !.cells = ApplyMerges(@, merges, TRUE)]

detect_vertical_merges(table, edges, tolerance) ==
  LET pair(row, col) ==
        LET t == FindCell(table.cells, row, col)
            b == FindCell(table.cells, row + 1, col)
            top == table.cells[t]
            bottom == table.cells[b]
            has_edge == \E k \in 1..Len(edges) :
                          /\ is_horizontal(edges[k])
                          /\ Abs(edges[k].top - top.bbox.bottom) <= tolerance
                          /\ edges[k].x0 <= top.bbox.x0 + tolerance
                          /\ edges[k].x1 >= top.bbox.x1 - tolerance
        IN IF t # 0 /\ b # 0 /\ ~has_edge
           THEN <<[row |-> row, col |-> col, bbox |-> bottom.bbox, text |-> bottom.text]>>
           ELSE <<>>
      merges == Concat([col \in 1..table.col_count |->
                  Concat([row \in 1..(table.row_count - 1) |-> pair(row - 1, col - 1)])])
  IN [table EXCEPT !.cells = ApplyMerges(@, merges, FALSE)]

detect_merged_cells(table, edges, tolerance) ==
  IF table.cells = <<>> \/ table.row_count <= 1 \/ table.col_count <= 1 THEN table
  ELSE detect_vertical_merges(detect_horizontal_merges(table, edges, tolerance),
                              edges, tolerance)

(***************************************************************************)
(* Table detection on small pages                                          *)
(***************************************************************************)
\* a Rect, a Line and a Char of a Page, with the fields table detection reads
PageRect(x0, top, x1, bottom) ==
  [x0 |-> x0, top |-> top, x1 |-> x1, bottom |-> bottom, linewidth |-> 1]

PageLine(x0, y0, x1, y1) ==
  [x0 |-> x0, y0 |-> y0, x1 |-> x1, y1 |-> y1, top |-> Min(y0, y1),
   bottom |-> Max(y0, y1), width |-> 1]

PageChar(text, x0, top) ==
  [text |-> text, x0 |-> x0, x1 |-> x0 + 6, top |-> top, bottom |-> top + 10]

TablePage(chars, lines, rects) ==
  [page_number |-> 1, width |-> 200, height |-> 100, doctop_offset |-> 0,
   chars |-> chars, lines |-> lines, rects |-> rects, curves |-> <<>>]

\* no Document is open: only a library function is running
NoDocument ==
  /\ doc = OnePageDoc(None, None, <<>>, <<>>)
  /\ pages_cache = EmptyMap
  /\ font_cache = EmptyMap
  /\ call = NoCall
  /\ interp = InterpreterNew(0, 0)
  /\ frames = <<>>
  /\ pc = 0
  /\ trace = <<>>
  /\ log = <<>>

docvars == <<doc, pages_cache, font_cache, call, interp, frames, pc, trace, log>>

GridRects(xs, ys) ==
  Concat([i \in 1..(Len(ys) - 1) |->
    [j \in 1..(Len(xs) - 1) |-> PageRect(xs[j], ys[i], xs[j + 1], ys[i + 1])]])

LetterA == PageChar(<<65>>, 2, 2)

LetterB == PageChar(<<66>>, 22, 2)

LetterC == PageChar(<<67>>, 2, 22)

LetterD == PageChar(<<68>>, 22, 22)

\* a letter whose centre (20, 7) is on the border between two cells of the grids
BoundaryLetter == PageChar(<<65>>, 17, 2)

TablePages ==
  {TablePage(<<LetterA, LetterB, LetterC, LetterD>>, <<>>, GridRects(<<0, 20, 40>>, <<0, 20, 40>>)),
   TablePage(<<LetterA, LetterB, LetterC>>, <<>>, GridRects(<<0, 20, 40>>, <<0, 20, 40>>)),
   TablePage(<<LetterA, PageChar(<<32>>, 8, 2), LetterB>>, <<>>, GridRects(<<0, 20, 40>>, <<0, 20>>)),
   TablePage(<<LetterA, PageChar(<<68>>, 62, 62)>>, <<>>,
             GridRects(<<0, 20>>, <<0, 20>>) \o GridRects(<<60, 80>>, <<60, 80, 100>>)),
   TablePage(<<LetterA, LetterB>>, <<>>,
             <<PageRect(0, 0, 20, 20), PageRect(20, 1, 40, 21), PageRect(0, 20, 20, 40)>>),
   TablePage(<<LetterA, LetterD>>,
             <<PageLine(0, 0, 40, 0), PageLine(40, 20, 0, 20), PageLine(0, 40, 40, 40),
               PageLine(0, 0, 0, 40), PageLine(20, 40, 20, 0), PageLine(40, 0, 40, 40),
               PageLine(0, 0, 1, 1)>>, <<>>),
   TablePage(<<LetterA>>, <<PageLine(0, 0, 2, 0)>>, <<>>),
   TablePage(<<>>, <<>>, GridRects(<<0, 20>>, <<0, 20>>)),
   TablePage(<<BoundaryLetter, LetterB>>, <<>>, GridRects(<<0, 20, 40>>, <<0, 20>>))}

ZeroIntersectionTolerance == [TableSettingsDefault EXCEPT !.intersection_tolerance = 0]

TableSettingsSet ==
  {TableSettingsDefault,
   [TableSettingsDefault EXCEPT !.snap_y_tolerance = Some(0), !.join_tolerance = 0,
                                !.intersection_x_tolerance = Some(1)],
   [TableSettingsDefault EXCEPT !.vertical_strategy = "Explicit",
                                !.explicit_vertical_lines = <<0, 20, 40>>],
   [TableSettingsDefault EXCEPT !.vertical_strategy = "Explicit",
                                !.horizontal_strategy = "Explicit",
                                !.explicit_vertical_lines = <<40, 0, 21>>,
                                !.explicit_horizontal_lines = <<0, 20>>]}

SingleCellPage == TablePage(<<LetterA>>, <<>>, GridRects(<<0, 20>>, <<0, 20>>))

\* the pages under every settings value, and the one-cell page under a zero
\* intersection tolerance
TableInputs ==
  (TablePages \X TableSettingsSet) \cup {<<SingleCellPage, ZeroIntersectionTolerance>>}

\* the grid lines of the 2 x 2 table whose middle vertical line starts at the
\* second row
BrokenGridEdges ==
  <<horizontal(0, 40, 0, 1), horizontal(0, 40, 20, 1), horizontal(0, 40, 40, 1),
    vertical(0, 0, 40, 1), vertical(20, 20, 40, 1), vertical(40, 0, 40, 1)>>

\* the edge lists a caller may hand to detect_merged_cells: the detected edges,
\* the detected edges without one of them, or the broken grid
MergeEdgeSets(page, settings) ==
  LET e == DetectEdges(page, settings)
  IN {e, BrokenGridEdges}
     \cup {SubSeq(e, 1, k - 1) \o SubSeq(e, k + 1, Len(e)) : k \in 1..Len(e)}

InitTable ==
  /\ NoDocument
  /\ \E input \in TableInputs :
       fn = [name |-> "detect_tables", page |-> input[1], settings |-> input[2],
             stage |-> "start", tables |-> <<>>, merged |-> FALSE, grids |-> <<>>]

\* table::extract::find_tables / extract_tables
DetectTables ==
  /\ fn.name = "detect_tables" /\ fn.stage = "start"
  /\ \E tables \in detect_tables(fn.page, fn.settings) :
       fn' = [fn EXCEPT !.stage = "detected", !.tables = tables]
  /\ UNCHANGED docvars

\* the caller applies the merged-cell post-pass to every table
DetectMergedCells ==
  /\ fn.name = "detect_tables" /\ fn.stage = "detected" /\ ~fn.merged
  /\ \E edges \in MergeEdgeSets(fn.page, fn.settings) :
       fn' = [fn EXCEPT !.merged = TRUE,
                        !.tables = [k \in 1..Len(fn.tables) |->
                                      detect_merged_cells(fn.tables[k], edges,
                                                          fn.settings.snap_tolerance)]]
  /\ UNCHANGED docvars

\* table::extract::extract_table_grids, the map over the tables
ToGrid ==
  /\ fn.name = "detect_tables" /\ fn.stage = "detected"
  /\ fn' = [fn EXCEPT !.stage = "grid",
                      !.grids = [k \in 1..Len(fn.tables) |-> to_grid(fn.tables[k])]]
  /\ UNCHANGED docvars

NextTable == DetectTables \/ DetectMergedCells \/ ToGrid

SpecTable == InitTable /\ [][NextTable]_vars

(***************************************************************************)
(* geometry/lines.rs as a library: snap_edges and merge_edges on edge lists *)
(***************************************************************************)
\* edges per list
MaxEdges == 3

EdgePool ==
  {horizontal(50, 100, 10, 1), horizontal(0, 60, 11, 2), horizontal(0, 20, 12, 1),
   horizontal(60, 0, 14, 1), horizontal(100, 120, 10, 3),
   vertical(10, 0, 40, 1), vertical(12, 60, 30, 2), vertical(14, 20, 90, 1)}

EdgeTolerances == {0, 2}

EdgeLists == UNION {[1..n -> EdgePool] : n \in 0..MaxEdges}

InitEdges ==
  /\ NoDocument
  /\ \E edges \in EdgeLists, x_tolerance \in EdgeTolerances, y_tolerance \in EdgeTolerances :
       fn = [name |-> "edges", edges |-> edges, x_tolerance |-> x_tolerance,
             y_tolerance |-> y_tolerance, snaps |-> <<>>, merged |-> FALSE,
             tolerance |-> 0, groups |-> <<>>, ret |-> <<>>]

\* the edge list as the last snap_edges left it
CurrentEdges == IF fn.snaps = <<>> THEN fn.edges ELSE fn.snaps[Len(fn.snaps)]

\* calls of snap_edges on one list
MaxSnaps == 2

\* lines::snap_edges(&mut edges, x_tolerance, y_tolerance)
SnapEdges ==
  /\ fn.name = "edges" /\ ~fn.merged /\ Len(fn.snaps) < MaxSnaps
  /\ fn' = [fn EXCEPT !.snaps = Append(@, snap_edges(CurrentEdges, fn.x_tolerance,
                                                      fn.y_tolerance))]
  /\ UNCHANGED docvars

\* lines::merge_edges(&edges, tolerance), with the tolerance detect_tables passes
MergeEdges ==
  /\ fn.name = "edges" /\ ~fn.merged
  /\ LET tolerance == Max(fn.x_tolerance, fn.y_tolerance)
     IN fn' = [fn EXCEPT !.merged = TRUE, !.tolerance = tolerance,
                         !.groups = MergeGroups(SelectSeq(CurrentEdges, is_horizontal),
                                                tolerance, TRUE)
                                    \o MergeGroups(SelectSeq(CurrentEdges, is_vertical),
                                                   tolerance, FALSE),
                         !.ret = merge_edges(CurrentEdges, tolerance)]
  /\ UNCHANGED docvars

NextEdges == SnapEdges \/ MergeEdges

SpecEdges == InitEdges /\ [][NextEdges]_vars

(***************************************************************************)
(* text/words.rs                                                           *)
(***************************************************************************)
\* the fold(f64::MAX, f64::min) and fold(f64::MIN, f64::max) of build_word, over
\* a non-empty sequence
FoldMin(s) == CHOOSE v \in {s[k] : k \in 1..Len(s)} : \A k \in 1..Len(s) : v <= s[k]

FoldMax(s) == CHOOSE v \in {s[k] : k \in 1..Len(s)} : \A k \in 1..Len(s) : v >= s[k]

build_word(chars) ==
  IF chars = <<>> THEN None
  ELSE LET non_space_chars == SelectSeq(chars, LAMBDA c : trim(c.text) # <<>>)
           text == Concat([k \in 1..Len(non_space_chars) |-> non_space_chars[k].text])
           field(f(_)) == [k \in 1..Len(non_space_chars) |-> f(non_space_chars[k])]
       IN IF non_space_chars = <<>> THEN None
          ELSE IF trim(text) = <<>> THEN None
          ELSE Some([text |-> text,
                     x0 |-> FoldMin(field(LAMBDA c : c.x0)),
                     x1 |-> FoldMax(field(LAMBDA c : c.x1)),
                     top |-> FoldMin(field(LAMBDA c : c.top)),
                     bottom |-> FoldMax(field(LAMBDA c : c.bottom)),
                     doctop |-> FoldMin(field(LAMBDA c : c.doctop)),
                     upright |-> non_space_chars[1].upright,
                     fontname |-> non_space_chars[1].fontname,
                     size |-> non_space_chars[1].size])

\* group_chars_to_words, the sort: the indices of chars top-to-bottom, then
\* left-to-right
SortedChars(chars) ==
  SortBy([k \in 1..Len(chars) |-> k],
         LAMBDA a, b : chars[a].top < chars[b].top
                       \/ (chars[a].top = chars[b].top /\ chars[a].x0 < chars[b].x0))

\* group_chars_to_words, the loop: the value of current_word_chars at every
\* build_word call, as indices into chars
RECURSIVE WordGroups(_, _, _, _)
WordGroups(chars, sorted, x_tolerance, y_tolerance) ==
  IF Len(sorted) = 1 THEN <<sorted>>
  ELSE LET groups == WordGroups(chars, SubSeq(sorted, 1, Len(sorted) - 1),
                                x_tolerance, y_tolerance)
           current_word_chars == groups[Len(groups)]
           last == chars[current_word_chars[Len(current_word_chars)]]
           ch == chars[sorted[Len(sorted)]]
           is_space == trim(ch.text) = <<>>
           same_line == Abs(ch.top - last.top) <= y_tolerance
           close_enough == Abs(ch.x0 - last.x1) <= x_tolerance
       IN IF same_line /\ close_enough /\ ~is_space
          THEN [groups EXCEPT ![Len(groups)] = Append(@, sorted[Len(sorted)])]
          ELSE Append(groups, <<sorted[Len(sorted)]>>)

\* the Option<Word> of every build_word call
BuiltWords(chars, x_tolerance, y_tolerance) ==
  IF chars = <<>> THEN <<>>
  ELSE LET groups == WordGroups(chars, SortedChars(chars), x_tolerance, y_tolerance)
       IN [g \in 1..Len(groups) |->
             build_word([k \in 1..Len(groups[g]) |-> chars[groups[g][k]]])]

group_chars_to_words(chars, x_tolerance, y_tolerance) ==
  Concat(BuiltWords(chars, x_tolerance, y_tolerance))

make_char(text, x0, x1, top) ==
  [text |-> text, fontname |-> "Helvetica", size |-> 12, x0 |-> x0, x1 |-> x1,
   top |-> top, bottom |-> top + 12, doctop |-> top, upright |-> TRUE]

\* characters per call
MaxChars == 3

WordCharPool ==
  {make_char(<<72>>, 72, 80, 100), make_char(<<101>>, 80, 86, 100),
   make_char(<<32>>, 86, 89, 100), make_char(<<87>>, 89, 99, 100),
   make_char(<<160>>, 99, 102, 100), make_char(<<111>>, 72, 78, 102),
   make_char(<<102, 32, 105>>, 99, 111, 100), make_char(<<100>>, 72, 78, 120)}

WordTolerances == {0, 3}

InitWords ==
  /\ NoDocument
  /\ \E chars \in UNION {[1..n -> WordCharPool] : n \in 0..MaxChars},
        x_tolerance \in WordTolerances, y_tolerance \in WordTolerances :
       fn = [name |-> "group_chars_to_words", chars |-> chars,
             x_tolerance |-> x_tolerance, y_tolerance |-> y_tolerance,
             done |-> FALSE, sorted |-> <<>>, groups |-> <<>>, built |-> <<>>,
             ret |-> <<>>]

\* Page::words
GroupCharsToWords ==
  /\ fn.name = "group_chars_to_words" /\ ~fn.done
  /\ fn' = [fn EXCEPT
       !.done = TRUE,
       !.sorted = SortedChars(fn.chars),
       !.groups = IF fn.chars = <<>> THEN <<>>
                  ELSE WordGroups(fn.chars, SortedChars(fn.chars),
                                  fn.x_tolerance, fn.y_tolerance),
       !.built = BuiltWords(fn.chars, fn.x_tolerance, fn.y_tolerance),
       !.ret = group_chars_to_words(fn.chars, fn.x_tolerance, fn.y_tolerance)]
  /\ UNCHANGED docvars

NextWords == GroupCharsToWords

SpecWords == InitWords /\ [][NextWords]_vars

(***************************************************************************)
(* geometry/clustering.rs                                                  *)
(***************************************************************************)
cluster_values_first(values, tolerance) ==
  LET RECURSIVE walk(_)
      walk(indexed) ==
        IF Len(indexed) = 1 THEN <<indexed>>
        ELSE LET clusters == walk(SubSeq(indexed, 1, Len(indexed) - 1))
                 idx == indexed[Len(indexed)]
                 first_val == values[clusters[Len(clusters)][1]]
             IN IF Abs(values[idx] - first_val) <= tolerance
                THEN [clusters EXCEPT ![Len(clusters)] = Append(@, idx)]
                ELSE Append(clusters, <<idx>>)
  IN IF values = <<>> THEN <<>>
     ELSE walk(SortBy([k \in 1..Len(values) |-> k], LAMBDA a, b : values[a] < values[b]))

\* clusters of indices into values (from 1)
cluster_values(values, tolerance) ==
  LET RECURSIVE walk(_)
      walk(indexed) ==
        IF Len(indexed) = 1 THEN <<indexed>>
        ELSE LET clusters == walk(SubSeq(indexed, 1, Len(indexed) - 1))
                 idx == indexed[Len(indexed)]
                 last_cluster == clusters[Len(clusters)]
                 last_idx == last_cluster[Len(last_cluster)]
                 last_val == values[last_idx]
             IN IF Abs(values[idx] - last_val) <= tolerance
                THEN [clusters EXCEPT ![Len(clusters)] = Append(@, idx)]
                ELSE Append(clusters, <<idx>>)
  IN IF values = <<>> THEN <<>>
     ELSE walk(SortBy([k \in 1..Len(values) |-> k], LAMBDA a, b : values[a] < values[b]))

\* values per call
MaxValues == 4

ClusterValueSet == {0, 1, 2, 4, 10}

ClusterTolerances == {0, 1, 2}

InitCluster ==
  /\ NoDocument
  /\ \E values \in UNION {[1..n -> ClusterValueSet] : n \in 0..MaxValues},
        tolerance \in ClusterTolerances :
       fn = [name |-> "cluster_values", args |-> <<values, tolerance>>,
             ret |-> <<>>, done |-> FALSE]

ClusterValues ==
  /\ fn.name = "cluster_values" /\ ~fn.done
  /\ fn' = [fn EXCEPT !.ret = cluster_values(fn.args[1], fn.args[2]), !.done = TRUE]
  /\ UNCHANGED docvars

NextCluster == ClusterValues

SpecCluster == InitCluster /\ [][NextCluster]_vars

(***************************************************************************)
(* SpecMatrix: cm operators and stroked segments on one page               *)
(***************************************************************************)
\* operators per content stream
MaxMatrixOps == 5

MatrixPool ==
  {scale(2, 3), translate(10, 20), Matrix(0, 1, -1, 0, 0, 0), Matrix(1, 0, 0, -1, 0, 100)}

InitMatrix ==
  /\ doc \in PathDocs
  /\ pages_cache = EmptyMap
  /\ LET b == BeginExtract(1, EmptyMap)
     IN /\ font_cache = b.fonts
        /\ interp = b.interp
        /\ call = [NoCall EXCEPT !.op = "page", !.n = 1, !.i = 1, !.phase = "run",
                                 !.resources = b.resources, !.seq = 1]
  /\ frames = <<>>
  /\ pc = 0
  /\ trace = <<>>
  /\ log = <<>>
  /\ fn = [name |-> "cm", applied |-> <<>>]

\* `a b c d e f cm` between path objects; fn.applied keeps the operand matrices
\* with the place of each cm in the trace
MatrixConcat ==
  \E M \in MatrixPool :
    /\ Running
    /\ frames = <<>>
    /\ interp.path = <<>>
    /\ pc < MaxMatrixOps
    /\ pc' = pc + 1
    /\ Exec(Op6("cm", M), call.resources, frames)
    /\ fn' = [fn EXCEPT !.applied = Append(@, [m |-> M, at |-> Len(trace) + 1])]
    /\ UNCHANGED <<doc, pages_cache, log>>

MatrixPageOp(op) ==
  /\ Running
  /\ frames = <<>>
  /\ pc < MaxMatrixOps
  /\ pc' = pc + 1
  /\ Exec(op, call.resources, frames)
  /\ UNCHANGED <<doc, pages_cache, log, fn>>

\* `3 4 m`
MatrixMove == MatrixPageOp(Op2("m", 3, 4))

\* `5 7 l`
MatrixLine == MatrixPageOp(Op2("l", 5, 7))

\* `S`
MatrixStroke == MatrixPageOp(Op0("S"))

NextMatrix == MatrixConcat \/ MatrixMove \/ MatrixLine \/ MatrixStroke

SpecMatrix == InitMatrix /\ [][NextMatrix]_vars

(***************************************************************************)
(* geometry/lines.rs as a library: find_intersections on edge lists        *)
(***************************************************************************)
\* edges per list
MaxCrossEdges == 4

CrossPool ==
  {horizontal(0, 10, 0, 1), horizontal(0, 10, 1, 1), horizontal(0, 10, 20, 1),
   vertical(0, 0, 20, 1), vertical(10, 0, 20, 1), vertical(12, 0, 20, 1)}

CrossTolerances == {0, 3}

InitCross ==
  /\ NoDocument
  /\ \E edges \in UNION {[1..n -> CrossPool] : n \in 0..MaxCrossEdges},
        x_tolerance \in CrossTolerances, y_tolerance \in CrossTolerances :
       fn = [name |-> "find_intersections", args |-> <<edges, x_tolerance, y_tolerance>>,
             ret |-> <<>>, done |-> FALSE]

\* lines::find_intersections(&edges, x_tolerance, y_tolerance)
FindIntersections ==
  /\ fn.name = "find_intersections" /\ ~fn.done
  /\ fn' = [fn EXCEPT !.ret = find_intersections(fn.args[1], fn.args[2], fn.args[3]),
                      !.done = TRUE]
  /\ UNCHANGED docvars

NextCross == FindIntersections

SpecCross == InitCross /\ [][NextCross]_vars

(***************************************************************************)
(* text/extract.rs: simple text extraction                                 *)
(***************************************************************************)
TextExtractOptionsDefault ==
  [layout |-> FALSE, x_tolerance |-> 3, y_tolerance |-> 3, keep_blank_chars |-> FALSE]

\* the comparator of extract_text_simple: by x0 when the tops are within
\* y_tolerance, by top otherwise
simple_less(a, b, y_tolerance) ==
  IF Abs(a.top - b.top) <= y_tolerance THEN a.x0 < b.x0 ELSE a.top < b.top

\* the comparator is a strict weak order on the characters of the call
simple_order_consistent(chars, y_tolerance) ==
  LET n == Len(chars)
      lt(i, j) == simple_less(chars[i], chars[j], y_tolerance)
      eq(i, j) == ~lt(i, j) /\ ~lt(j, i)
  IN /\ \A i, j, k \in 1..n : lt(i, j) /\ lt(j, k) => lt(i, k)
     /\ \A i, j, k \in 1..n : eq(i, j) /\ eq(j, k) => eq(i, k)

\* sorted.sort_by(..): the stable order when the comparator is an order on the
\* input, an unspecified order when it is not
simple_sorted(chars, y_tolerance) ==
  LET idx == [k \in 1..Len(chars) |-> k] IN
  IF simple_order_consistent(chars, y_tolerance)
  THEN {SortBy(idx, LAMBDA a, b : simple_less(chars[a], chars[b], y_tolerance))}
  ELSE Orderings(1..Len(chars))

\* result.trim_end_matches(' ')
RECURSIVE trim_end_spaces(_)
trim_end_spaces(s) ==
  IF s # <<>> /\ s[Len(s)] = 32 THEN trim_end_spaces(SubSeq(s, 1, Len(s) - 1)) ELSE s

\* get_last_x1: sorted walked backwards, the current character passed over
RECURSIVE LastX1Loop(_, _, _)
LastX1Loop(sorted, current, j) ==
  IF j = 0 THEN None
  ELSE IF j = current THEN LastX1Loop(sorted, current, j - 1)
  ELSE IF /\ Abs(sorted[j].top - sorted[current].top) <= 3
          /\ sorted[j].x1 <= sorted[current].x0 + 1
       THEN Some(sorted[j].x1)
       ELSE LastX1Loop(sorted, current, j - 1)

get_last_x1(sorted, current) == LastX1Loop(sorted, current, Len(sorted))

\* extract_text_simple, the loop over sorted: result and current_line_top
\* after the first k characters, with the positions a newline was pushed at
RECURSIVE SimpleLoop(_, _, _)
SimpleLoop(sorted, options, k) ==
  IF k = 0
  THEN [result |-> <<>>, current_line_top |-> sorted[1].top, breaks |-> {}]
  ELSE LET p == SimpleLoop(sorted, options, k - 1)
           ch == sorted[k]
           last_x1 == get_last_x1(sorted, k)
       IN IF ~options.keep_blank_chars /\ trim(ch.text) = <<>> /\ ch.text # <<32>>
          THEN p
          ELSE IF Abs(ch.top - p.current_line_top) > options.y_tolerance
          THEN [result |-> trim_end_spaces(p.result) \o <<10>> \o ch.text,
                current_line_top |-> ch.top,
                breaks |-> p.breaks \cup {k}]
          ELSE IF /\ p.result # <<>> /\ p.result[Len(p.result)] # 10
                  /\ last_x1 # None /\ ch.x0 - last_x1[1] > options.x_tolerance
          THEN [p EXCEPT !.result = p.result \o <<32>> \o ch.text]
          ELSE [p EXCEPT !.result = p.result \o ch.text]

\* extract_text_simple for one outcome of the sort
extract_text_simple(chars, order, options) ==
  IF chars = <<>> THEN [text |-> <<>>, breaks |-> {}]
  ELSE LET sorted == [k \in 1..Len(chars) |-> chars[order[k]]]
           r == SimpleLoop(sorted, options, Len(sorted))
       IN [text |-> trim_end(r.result), breaks |-> r.breaks]

\* characters per call
MaxSimpleChars == 3

SimpleCharPool ==
  {make_char(<<65>>, 72, 80, 100), make_char(<<66>>, 72, 80, 120),
   make_char(<<67>>, 80, 88, 102), make_char(<<68>>, 88, 96, 104),
   make_char(<<69>>, 100, 108, 100), make_char(<<32>>, 96, 100, 104),
   make_char(<<70>>, 60, 68, 104), make_char(<<9>>, 88, 96, 110)}

SimpleOptionSet ==
  {[TextExtractOptionsDefault EXCEPT !.y_tolerance = y, !.keep_blank_chars = k] :
     y \in {0, 3}, k \in BOOLEAN}

InitSimple ==
  /\ NoDocument
  /\ \E chars \in UNION {[1..n -> SimpleCharPool] : n \in 0..MaxSimpleChars},
        options \in SimpleOptionSet :
       fn = [name |-> "extract_text_simple", chars |-> chars, options |-> options,
             sorted |-> <<>>, text |-> <<>>, breaks |-> {}, done |-> FALSE]

\* extract_text(chars, .., options) with layout = false
ExtractTextSimple ==
  /\ fn.name = "extract_text_simple" /\ ~fn.done
  /\ \E order \in simple_sorted(fn.chars, fn.options.y_tolerance) :
       LET r == extract_text_simple(fn.chars, order, fn.options)
       IN fn' = [fn EXCEPT !.sorted = [k \in 1..Len(fn.chars) |-> fn.chars[order[k]]],
                           !.text = r.text, !.breaks = r.breaks, !.done = TRUE]
  /\ UNCHANGED docvars

NextSimple == ExtractTextSimple

SpecSimple == InitSimple /\ [][NextSimple]_vars

(***************************************************************************)
(* SpecTree: Document::page and Document::pages on a two-level page tree   *)
(* whose nodes bind the font name F1 to different font objects             *)
(***************************************************************************)
TreeResources ==
  <<Resources(("F1" :> 1), ("X1" :> 1), EmptyMap),
    Resources(("F1" :> 2), ("X1" :> 1), EmptyMap)>>

TreeForms(form_res) ==
  <<XObject("Form", Some(translate(5, 5)), form_res,
            Some(<<Op0("BT"), OpTf("F1", 4), OpTj(<<65>>), Op0("ET")>>))>>

\* node 1 is the root, node 2 an intermediate Pages node below it; pages 1
\* and 2 (nodes 3 and 4) are kids of node 2, page 3 (node 5) is a kid of the root
TreeDoc(mid_res, page2_res, form_res) ==
  [page_ids |-> <<3, 4, 5>>,
   nodes |-> <<Node(None, Some(LetterBox), None, Some(1), Some(<<>>)),
               Node(Some(1), None, None, mid_res, Some(<<>>)),
               Node(Some(2), None, None, None, Some(ContentText)),
               Node(Some(2), None, None, page2_res, Some(ContentText)),
               Node(Some(1), None, None, Some(1), Some(ContentMixed))>>,
   resources |-> TreeResources, fonts |-> FontObjects, xobjects |-> TreeForms(form_res)]

TreeDocs ==
  {TreeDoc(m, p, f) : m \in {None, Some(2)}, p \in {None, Some(2)}, f \in {None, Some(2)}}

InitTree ==
  /\ doc \in TreeDocs
  /\ pages_cache = EmptyMap
  /\ font_cache = EmptyMap
  /\ call = NoCall
  /\ interp = InterpreterNew(0, 0)
  /\ frames = <<>>
  /\ pc = 0
  /\ trace = <<>>
  /\ log = <<>>
  /\ fn = NoFn

SpecTree == InitTree /\ [][NextDoc]_vars

\* process_page's loop with op_do_xobject's nested loops, as one function of
\* the interpreter and the font cache: [interp, fonts, aborted]
RECURSIVE RunOps(_, _, _, _)
RunOps(st, ops, res, depth) ==
  IF ops = <<>> \/ st.aborted THEN st
  ELSE LET op == Head(ops)
           target == DoTarget(op.operands, res)
       IN IF op.operator = "Do" /\ target # None
          THEN IF depth >= MaxCallDepth
               THEN [st EXCEPT !.aborted = TRUE]
               ELSE LET form_res == FormRes(target[1], res)
                        entered == [st EXCEPT
                                      !.interp = FormEnter(st.interp, target[1]),
                                      !.fonts = IF form_res # None
                                                THEN load_fonts(st.fonts, form_res[1])
                                                ELSE st.fonts]
                        inner == RunOps(entered, FormBody(target[1]), form_res, depth + 1)
                        after == [inner EXCEPT !.interp = op_restore_state(inner.interp)]
                    IN IF inner.aborted THEN inner
                       ELSE RunOps(after, Tail(ops), res, depth)
          ELSE RunOps([st EXCEPT !.interp = process_operation(st.interp, st.fonts, op, res)],
                      Tail(ops), res, depth)

\* extract_page(page_number) of a Document whose font cache holds `fonts`
extract_page(page_number, fonts) ==
  LET b == BeginExtract(page_number, fonts)
      dims == get_page_dimensions(doc.page_ids[page_number])
      content == doc.nodes[doc.page_ids[page_number]].content
      r == RunOps([interp |-> b.interp, fonts |-> b.fonts, aborted |-> FALSE],
                  content[1], b.resources, 0)
  IN IF ~b.ok THEN <<"Err", "ContentStream">>
     ELSE IF r.aborted THEN <<"abort", "stack overflow">>
     ELSE <<"Ok", Page(page_number, dims[1], dims[2], r.interp.doctop_offset, r.interp)>>

(***************************************************************************)
(* SpecPos: text positioning and showing operators, on arbitrary streams;  *)
(* fn.op is the operation process_operation was last called with          *)
(***************************************************************************)
MaxPosOps == 4

PosOps ==
  {Op0("BT"), OpTf("F1", 2), Op1("TL", 5), Op2("Td", 10, 20), Op2("TD", 3, -7),
   Op6("Tm", Matrix(2, 0, 0, 2, 10, 10)), Op0("T*")}

PosShowOps ==
  {OpTj(<<65>>),
   Operation("TJ", <<Array(<<String(<<65>>), Integer(-500), String(<<66>>)>>)>>)}

\* the state in which extract_page(1) of a fresh Document runs the interpreter
InitLogged(docs) ==
  /\ doc \in docs
  /\ pages_cache = EmptyMap
  /\ LET b == BeginExtract(1, EmptyMap)
     IN /\ font_cache = b.fonts
        /\ interp = b.interp
        /\ call = [NoCall EXCEPT !.op = "page", !.n = 1, !.i = 1, !.phase = "run",
                                 !.resources = b.resources, !.seq = 1]
  /\ frames = <<>>
  /\ pc = 0
  /\ trace = <<>>
  /\ log = <<>>
  /\ fn = [name |-> "process_operation", op |-> Op0("")]

\* process_page's loop on an operation of the page's content stream, recorded in fn
LoggedOp(op, max) ==
  /\ Running
  /\ frames = <<>>
  /\ pc < max
  /\ pc' = pc + 1
  /\ Exec(op, call.resources, frames)
  /\ fn' = [fn EXCEPT !.op = op]
  /\ UNCHANGED <<doc, pages_cache, log>>

InitPos == InitLogged({OnePageDoc(None, Some(1), TextResources, <<>>)})

\* a text state or text positioning operator: BT, Tf, TL, Td, TD, Tm, T*
PosSet == \E op \in PosOps : LoggedOp(op, MaxPosOps)

\* Tj, TJ
PosShow == \E op \in PosShowOps : LoggedOp(op, MaxPosOps)

NextPos ==
  \/ PosSet
  \/ PosShow

SpecPos == InitPos /\ [][NextPos]_vars

(***************************************************************************)
(* SpecShort: operators given fewer operands than they take, on arbitrary  *)
(* streams                                                                 *)
(***************************************************************************)
MaxShortOps == 3

\* operators with their operands, to move the state away from its defaults
ShortSetupOps ==
  {Operation("CS", <<Name("DeviceRGB")>>), Operation("cs", <<Name("DeviceCMYK")>>),
   Operation("RG", <<Integer(1), Integer(0), Integer(0)>>),
   Op0("BT"), Op2("m", 10, 10), OpTj(<<65>>)}

\* operators with too few operands
ShortOps ==
  {Op0("m"), Op1("l", 30), Op1("re", 5),
   Operation("c", <<Integer(1), Integer(2), Integer(3), Integer(4), Integer(5)>>),
   Operation("v", <<Integer(1), Integer(2), Integer(3)>>),
   Operation("y", <<Integer(1), Integer(2), Integer(3)>>),
   Operation("cm", <<Integer(2), Integer(0), Integer(0), Integer(2), Integer(0)>>),
   Operation("Tf", <<Name("F2")>>), Op1("Td", 10), Op1("TD", 10),
   Operation("Tm", <<Integer(2), Integer(0), Integer(0), Integer(2), Integer(10)>>),
   Operation("\"", <<Integer(2), Integer(1)>>),
   Op0("SC"), Op2("SCN", 1, 0), Op1("sc", 1), Op0("scn"),
   Op2("RG", 1, 0), Op2("rg", 1, 0),
   Operation("K", <<Integer(1), Integer(0), Integer(0)>>),
   Operation("k", <<Integer(1), Integer(0), Integer(0)>>)}

InitShort == InitLogged({OnePageDoc(None, Some(1), TextResources, <<>>)})

ShortSetup == \E op \in ShortSetupOps : LoggedOp(op, MaxShortOps)

ShortOp == \E op \in ShortOps : LoggedOp(op, MaxShortOps)

NextShort ==
  \/ ShortSetup
  \/ ShortOp

SpecShort == InitShort /\ [][NextShort]_vars

(***************************************************************************)
(* SpecSave: q and Q among text, path and graphics state operators, on     *)
(* arbitrary streams                                                       *)
(***************************************************************************)
MaxSaveOps == 4

SaveOps == {Op0("q"), Op0("Q")}

SaveOtherOps ==
  {Op0("BT"), OpTf("F1", 2), Op1("TL", 5), Op2("Td", 10, 20), OpTj(<<65>>),
   Op1("w", 5), Op2("m", 10, 10), Op2("l", 30, 10), Op0("S")}

InitSave == InitLogged({OnePageDoc(None, Some(1), TextResources, <<>>)})

\* q, Q
SaveRestore == \E op \in SaveOps : LoggedOp(op, MaxSaveOps)

\* a text, path or graphics state operator
SaveOther == \E op \in SaveOtherOps : LoggedOp(op, MaxSaveOps)

NextSave ==
  \/ SaveRestore
  \/ SaveOther

SpecSave == InitSave /\ [][NextSave]_vars

(***************************************************************************)
(* Properties                                                              *)
(***************************************************************************)
GsBefore(i) == IF i = 1 THEN GraphicsStateDefault ELSE trace[i - 1].gs

DepthBefore(i) == IF i = 1 THEN 0 ELSE trace[i - 1].depth

\* the nesting of op_do_xobject calls in which trace entry k ran, as the q
\* operators of each running stream that no Q of the same stream has followed
\* (the page's stream first)
RECURSIVE UnmatchedSaves(_)
UnmatchedSaves(k) ==
  IF k = 0 THEN << <<>> >>
  ELSE LET s == UnmatchedSaves(k - 1)
           n == Len(s)
           e == trace[k]
       IN IF e.ev = "enter" THEN Append(s, <<>>)
          ELSE IF e.ev = "return" THEN SubSeq(s, 1, n - 1)
          ELSE IF e.op = "q" THEN [s EXCEPT ![n] = Append(@, k)]
          ELSE IF e.op = "Q" /\ s[n] # <<>>
               THEN [s EXCEPT ![n] = SubSeq(@, 1, Len(@) - 1)]
          ELSE s

\* C1: a Q that closes a q of its content stream leaves the live graphics state
\* and the stack depth as they were just before that q, and a Q met with an
\* empty stack changes neither the live state nor the stack.
C1_StackDiscipline ==
  \A j \in 1..Len(trace) :
    (trace[j].ev = "op" /\ trace[j].op = "Q") =>
      LET s == UnmatchedSaves(j - 1)
          u == s[Len(s)]
      IN /\ u # <<>> =>
              /\ trace[j].gs = GsBefore(u[Len(u)])
              /\ trace[j].depth = DepthBefore(u[Len(u)])
         /\ DepthBefore(j) = 0 =>
              /\ trace[j].gs = GsBefore(j)
              /\ trace[j].depth = 0

\* C2: after every Do of a Form XObject the live graphics state and the stack
\* depth are those just before the Do.
C2_FormIsolation ==
  \A j \in 1..Len(trace) :
    trace[j].ev = "return" =>
      /\ trace[j].gs = GsBefore(trace[j].ref)
      /\ trace[j].depth = DepthBefore(trace[j].ref)

\* C3: Do never nests deeper than the cap of 16 and never exhausts the stack.
C3_RecursionCapped ==
  /\ Len(frames) <= 16
  /\ call.ret # <<"abort", "stack overflow">>

\* the Page extract_page first produced for page n
LogOf(n) == CHOOSE p \in {log[a] : a \in 1..Len(log)} : p.page_number = n

\* C4: no page is extracted again once it has been extracted, the cache holds for
\* each page the Page its one extraction produced, and every successful request
\* returns that Page.
C4_PageCache ==
  /\ \A a, b \in 1..Len(log) : log[a].page_number = log[b].page_number => a = b
  /\ DOMAIN pages_cache = {log[a].page_number : a \in 1..Len(log)}
  /\ \A n \in DOMAIN pages_cache : pages_cache[n] = LogOf(n)
  /\ (call.phase = "returned" /\ call.ret = <<"Ok">>) =>
       /\ call.op = "page" => call.val = <<LogOf(call.n)>>
       /\ call.op = "pages" => call.val = [k \in 1..page_count |-> LogOf(k)]

\* page(n) was answered from the cache filled by an earlier request
C4_Witness ==
  /\ call.op = "page" /\ call.phase = "returned" /\ call.ret = <<"Ok">>
  /\ call.i = 0
  /\ call.val[1].chars # <<>>
  /\ Len(log) >= 2

\* C5: a call page(n) with n = 0 or n > page_count returns PageNotFound(n) and
\* leaves the page cache and the font cache as they were.
C5_PageNotFound ==
  [][(call'.seq # call.seq /\ call'.op = "page"
        /\ (call'.n = 0 \/ call'.n > page_count)) =>
       /\ call'.phase = "returned"
       /\ call'.ret = <<"Err", "PageNotFound", call'.n>>
       /\ pages_cache' = pages_cache
       /\ font_cache' = font_cache]_vars

\* page(page_count + 1) was refused on a Document that has pages and fonts cached
C5_Witness ==
  /\ call.op = "page" /\ call.n = page_count + 1
  /\ call.ret = <<"Err", "PageNotFound", call.n>>
  /\ DOMAIN pages_cache # {}
  /\ DOMAIN font_cache # {}

\* C6: every emitted primitive has x0 <= x1 and top <= bottom, and every Char
\* has size > 0.
C6_PrimitiveBoxes ==
  /\ \A i \in 1..Len(interp.chars) :
       LET c == interp.chars[i]
       IN c.x0 <= c.x1 /\ c.top <= c.bottom /\ c.size > 0
  /\ \A i \in 1..Len(interp.lines) :
       LET l == interp.lines[i]
       IN l.x0 <= l.x1 /\ l.top <= l.bottom
  /\ \A i \in 1..Len(interp.rects) :
       LET r == interp.rects[i]
       IN r.x0 <= r.x1 /\ r.top <= r.bottom

\* the height the Document reports for page k
HeightOfPage(k) ==
  IF k \in DOMAIN pages_cache THEN pages_cache[k].height
  ELSE get_page_dimensions(doc.page_ids[k])[2]

\* C7: doctop of every character of every page is its top plus the heights of
\* all earlier pages.
C7_Doctop ==
  \A n \in DOMAIN pages_cache :
    \A i \in 1..Len(pages_cache[n].chars) :
      LET c == pages_cache[n].chars[i]
      IN c.doctop = c.top + SumSeq([k \in 1..(n - 1) |-> HeightOfPage(k)])

\* page 3 was extracted with characters, before page 1 and after page 2, whose
\* height is not the inherited one
C7_Witness ==
  /\ 3 \in DOMAIN pages_cache
  /\ pages_cache[3].chars # <<>>
  /\ 1 \notin DOMAIN pages_cache
  /\ Len(log) = 2 /\ log[1].page_number = 2
  /\ doc.nodes[doc.page_ids[1]].MediaBox # None

\* C8: decode_char returns the ToUnicode string of a mapped code, else the
\* encoding's character, else the ASCII character below 128, else U+FFFD.
C8_DecodePrecedence ==
  (fn.name = "decode_char" /\ fn.done) =>
    LET font == fn.args[1]
        code == fn.args[2]
        enc == font.encoding
        enc_char == IF enc.kind = "Custom" /\ code \in DOMAIN enc.overrides
                    THEN Some(enc.overrides[code])
                    ELSE decode_named(enc.base, code)
    IN /\ Len(fn.ret) >= 1
       /\ fn.ret = IF code \in DOMAIN font.to_unicode THEN font.to_unicode[code]
                   ELSE IF enc_char # None THEN <<enc_char[1]>>
                   ELSE IF code < 128 THEN <<code>>
                   ELSE <<65533>>

\* a code mapped by ToUnicode, by a Differences override and by the base encoding
\* decoded to its ToUnicode string
C8_Witness ==
  /\ fn.name = "decode_char" /\ fn.done
  /\ fn.args[2] \in DOMAIN fn.args[1].to_unicode
  /\ fn.args[1].encoding.kind = "Custom"
  /\ fn.args[2] \in DOMAIN fn.args[1].encoding.overrides
  /\ fn.ret = fn.args[1].to_unicode[fn.args[2]]
  /\ fn.ret # <<fn.args[1].encoding.overrides[fn.args[2]]>>

\* C9: a page with no resource dictionary, or whose resources define no font,
\* is processed without error and yields no character.
C9_NoFontsNoChars ==
  (call.resources = None \/ DOMAIN doc.resources[call.resources[1]].Font = {}) =>
    /\ interp.chars = <<>>
    /\ call.phase # "aborted"

\* C10: after a path-painting operator the path buffer is empty and there is no
\* current point.
C10_PathCleared ==
  (trace # <<>> /\ trace[Len(trace)].op \in PaintOperators) =>
    /\ interp.path = <<>>
    /\ interp.current_point = None

\* a path with a current point was stroked into a Line
C10_Witness ==
  /\ Len(trace) >= 3
  /\ trace[Len(trace)].op \in {"S", "B", "b"}
  /\ trace[Len(trace) - 1].op = "l"
  /\ interp.lines # <<>>

(***************************************************************************)
(* Tables                                                                  *)
(***************************************************************************)
\* the number of values of vals that are distinct once values closer than tol
\* count as one
RECURSIVE DistinctCount(_, _)
DistinctCount(vals, tol) ==
  IF vals = {} THEN 0
  ELSE LET least == CHOOSE v \in vals : \A w \in vals : v <= w
       IN 1 + DistinctCount({w \in vals : w # least /\ w - least >= tol}, tol)

HasCellAt(table, r, c) ==
  \E k \in 1..Len(table.cells) : table.cells[k].row = r /\ table.cells[k].col = c

\* C11: the grid of a non-merged table has row_count rows of col_count entries,
\* grid[r][c] is Some exactly when the table has a cell at (r, c), and
\* row_count and col_count are the numbers of distinct cell tops and cell
\* lefts, values within the intersection tolerance counting as one.
C11_GridProjection ==
  (fn.name = "detect_tables" /\ fn.stage = "grid" /\ ~fn.merged) =>
    \A k \in 1..Len(fn.tables) :
      LET table == fn.tables[k]
          grid == fn.grids[k]
          tops == {table.cells[m].bbox.top : m \in 1..Len(table.cells)}
          lefts == {table.cells[m].bbox.x0 : m \in 1..Len(table.cells)}
      IN /\ Len(grid) = table.row_count
         /\ \A r \in 1..Len(grid) : Len(grid[r]) = table.col_count
         /\ \A r \in 1..Len(grid) : \A c \in 1..Len(grid[r]) :
              (grid[r][c] # None) <=> HasCellAt(table, r - 1, c - 1)
         /\ table.row_count = DistinctCount(tops, intersection_y(fn.settings))
         /\ table.col_count = DistinctCount(lefts, intersection_x(fn.settings))

\* C12: after the merged-cell pass the grid holds the text of every cell that
\* spans several slots in each slot it spans, and the slot to the right of a
\* cell of col_span 2 belongs to no other cell.
C12_MergedGrid ==
  (fn.name = "detect_tables" /\ fn.stage = "grid" /\ fn.merged) =>
    \A k \in 1..Len(fn.tables) :
      LET table == fn.tables[k]
          grid == fn.grids[k]
      IN \A m \in 1..Len(table.cells) :
           LET cell == table.cells[m]
           IN (cell.row_span > 1 \/ cell.col_span > 1) =>
                \A r \in cell.row..(cell.row + cell.row_span - 1) :
                  \A c \in cell.col..(cell.col + cell.col_span - 1) :
                    /\ r < table.row_count /\ c < table.col_count
                    /\ grid[r + 1][c + 1] =
                         (IF cell.text = <<>> THEN None ELSE Some(cell.text))

C14_SnapIdempotent ==
  (fn.name = "edges" /\ Len(fn.snaps) >= 2) => fn.snaps[2] = fn.snaps[1]

\* a list was snapped twice; the first pass moved an edge to the line of its
\* group's first edge and left alone a third edge that was within the tolerance
\* of the moved edge's old place, but not of the group's first edge
C14_Witness ==
  /\ fn.name = "edges" /\ Len(fn.snaps) = 2
  /\ \E i, j, k \in 1..Len(fn.edges) :
       /\ is_horizontal(fn.edges[i]) /\ is_horizontal(fn.edges[j])
       /\ is_horizontal(fn.edges[k])
       /\ fn.snaps[1][j].top = fn.edges[i].top
       /\ fn.edges[j].top # fn.edges[i].top
       /\ Abs(fn.edges[k].top - fn.edges[j].top) <= fn.y_tolerance
       /\ fn.snaps[1][k].top = fn.edges[k].top
       /\ fn.snaps[1][k].top # fn.snaps[1][j].top
  /\ fn.snaps[2] = fn.snaps[1]

SpanStart(e) == IF is_horizontal(e) THEN e.x0 ELSE e.top

SpanEnd(e) == IF is_horizontal(e) THEN e.x1 ELSE e.bottom

LineOf(e) == IF is_horizontal(e) THEN e.top ELSE e.x0

SetMin(S) == CHOOSE v \in S : \A w \in S : v <= w

SetMax(S) == CHOOSE v \in S : \A w \in S : v >= w

\* C20: merge_edges joins an edge to a merged edge only when the two are
\* collinear within the tolerance and their spans overlap or touch within the
\* tolerance, and a merged edge starts at the least start, ends at the greatest
\* end and has the greatest width of the edges merged into it.
C20_MergeUnion ==
  (fn.name = "edges" /\ fn.merged) =>
    \A g \in 1..Len(fn.groups) :
      LET parts == fn.groups[g].parts
          edge == fn.groups[g].edge
          all == 1..Len(parts)
      IN /\ \A k \in 2..Len(parts) :
              LET before == 1..(k - 1)
              IN /\ \A j \in before : Abs(LineOf(parts[k]) - LineOf(parts[j])) <= fn.tolerance
                 /\ SpanStart(parts[k]) <=
                      SetMax({SpanEnd(parts[j]) : j \in before}) + fn.tolerance
                 /\ SpanEnd(parts[k]) >=
                      SetMin({SpanStart(parts[j]) : j \in before}) - fn.tolerance
         /\ SpanStart(edge) = SetMin({SpanStart(parts[j]) : j \in all})
         /\ SpanEnd(edge) = SetMax({SpanEnd(parts[j]) : j \in all})
         /\ edge.width = SetMax({parts[j].width : j \in all})

(***************************************************************************)
(* Words                                                                   *)
(***************************************************************************)
IsSpaceChar(c) == trim(c.text) = <<>>

\* the characters of group g that went into its word
Contributors(g) ==
  IF fn.built[g] = None THEN {}
  ELSE {fn.groups[g][k] : k \in {k \in 1..Len(fn.groups[g]) : ~IsSpaceChar(fn.chars[fn.groups[g][k]])}}

\* C15: every character with non-blank text goes into exactly one returned
\* word, a whitespace character goes into none and closes the word in progress,
\* and every returned word has non-empty text without a whitespace character.
C15_WordGrouping ==
  (fn.name = "group_chars_to_words" /\ fn.done) =>
    /\ \A i \in 1..Len(fn.chars) :
         Cardinality({g \in 1..Len(fn.groups) : i \in Contributors(g)}) =
           (IF IsSpaceChar(fn.chars[i]) THEN 0 ELSE 1)
    /\ \A g \in 1..Len(fn.groups) :
         fn.built[g] # None =>
           fn.built[g][1].text =
             Concat([k \in 1..Len(fn.groups[g]) |->
                       IF IsSpaceChar(fn.chars[fn.groups[g][k]]) THEN <<>>
                       ELSE fn.chars[fn.groups[g][k]].text])
    /\ \A g \in 1..Len(fn.groups) : \A k \in 2..Len(fn.groups[g]) :
         ~IsSpaceChar(fn.chars[fn.groups[g][k]])
    /\ \A w \in 1..Len(fn.ret) :
         /\ fn.ret[w].text # <<>>
         /\ \A k \in 1..Len(fn.ret[w].text) : fn.ret[w].text[k] \notin WHITE_SPACE

(***************************************************************************)
(* Clustering                                                              *)
(***************************************************************************)
\* the cluster of index i in the result
ClusterOf(i) == CHOOSE c \in 1..Len(fn.ret) : \E k \in 1..Len(fn.ret[c]) : fn.ret[c][k] = i

\* i and j are neighbours in the sorted order of the values
AdjacentSorted(values, i, j) ==
  /\ i # j
  /\ values[i] <= values[j]
  /\ \A m \in 1..Len(values) : ~(values[i] < values[m] /\ values[m] < values[j])

MatrixPoints == {<<0, 0>>, <<1, 0>>, <<0, 1>>, <<3, 4>>}

\* p mapped by the first n operand matrices of fn.applied, the last of them
\* first, and then by the CTM the page starts with
RECURSIVE ComposeApplied(_, _)
ComposeApplied(n, p) ==
  IF n = 0 THEN transform_point(GraphicsStateDefault.ctm, p[1], p[2])
  ELSE LET q == transform_point(fn.applied[n].m, p[1], p[2])
       IN ComposeApplied(n - 1, q)

\* C17: `cm M` makes the CTM M x CTM_old: a point is mapped by M and then by the
\* old CTM, after a sequence of cm operators by the last operand first and the
\* page's CTM last, and a segment stroked afterwards is placed by that map.
C17_MatrixOrder ==
  (fn.name = "cm") =>
    /\ \A n \in 1..Len(fn.applied) : \A p \in MatrixPoints :
         LET old == GsBefore(fn.applied[n].at).ctm
             new == trace[fn.applied[n].at].gs.ctm
             q == transform_point(fn.applied[n].m, p[1], p[2])
         IN /\ transform_point(new, p[1], p[2]) = transform_point(old, q[1], q[2])
            /\ transform_point(multiply(fn.applied[n].m, old), p[1], p[2])
                 = transform_point(old, q[1], q[2])
            /\ transform_point(new, p[1], p[2]) = ComposeApplied(n, p)
    /\ (/\ Len(trace) >= 3
        /\ trace[Len(trace)].op = "S"
        /\ trace[Len(trace) - 1].op = "l"
        /\ trace[Len(trace) - 2].op = "m") =>
         LET a == ComposeApplied(Len(fn.applied), <<3, 4>>)
             b == ComposeApplied(Len(fn.applied), <<5, 7>>)
             line == interp.lines[Len(interp.lines)]
         IN /\ interp.lines # <<>>
            /\ <<line.x0, line.y0>> = to_page_coords(interp, a[1], a[2])
            /\ <<line.x1, line.y1>> = to_page_coords(interp, b[1], b[2])

\* cm A then cm B with A x B different from B x A, then a segment was stroked
C17_Witness ==
  /\ fn.name = "cm" /\ Len(fn.applied) = 2
  /\ multiply(fn.applied[1].m, fn.applied[2].m) # multiply(fn.applied[2].m, fn.applied[1].m)
  /\ interp.gs.ctm = multiply(fn.applied[2].m, fn.applied[1].m)
  /\ Len(trace) = 5
  /\ trace[5].op = "S" /\ trace[4].op = "l" /\ trace[3].op = "m"
  /\ Len(interp.lines) = 1

(***************************************************************************)
(* Path painting                                                           *)
(***************************************************************************)
\* this step runs the handler of a painting operator of the set ops
PaintStep(ops) ==
  /\ Len(trace') = Len(trace) + 1
  /\ trace'[Len(trace')].ev = "op"
  /\ trace'[Len(trace')].op \in ops

\* the Lines the operator o adds to the page when it paints the path of interp
LinesOf(o) ==
  LET after == process_operation(interp, font_cache, Op0(o), call.resources)
  IN SubSeq(after.lines, Len(interp.lines) + 1, Len(after.lines))

\* the Lines this step added to the page
NewLines == SubSeq(interp'.lines, Len(interp.lines) + 1, Len(interp'.lines))

\* C18: B and B* add the Lines that S adds for the same path, and b and b* the
\* Lines that s adds.
C18_FillAndStroke ==
  [][/\ PaintStep({"B", "B*"}) => NewLines = LinesOf("S")
     /\ PaintStep({"b", "b*"}) => NewLines = LinesOf("s")]_vars

\* the segments a stroke of path draws, as pairs of device-space points: one for
\* every LineTo and one for every ClosePath whose current point is not the start
\* of the subpath
RECURSIVE StrokedSegments(_, _, _, _)
StrokedSegments(path, ctm, current, subpath_start) ==
  IF path = <<>> THEN <<>>
  ELSE LET s == Head(path)
           rest == Tail(path)
       IN CASE s[1] = "MoveTo" ->
                 LET t == transform_point(ctm, s[2], s[3])
                 IN StrokedSegments(rest, ctm, t, t)
            [] s[1] = "LineTo" ->
                 LET t == transform_point(ctm, s[2], s[3])
                 IN <<<<current, t>>>> \o StrokedSegments(rest, ctm, t, subpath_start)
            [] s[1] = "CurveTo" ->
                 StrokedSegments(rest, ctm, transform_point(ctm, s[6], s[7]), subpath_start)
            [] s[1] = "ClosePath" ->
                 (IF current # subpath_start THEN <<<<current, subpath_start>>>> ELSE <<>>)
                   \o StrokedSegments(rest, ctm, subpath_start, subpath_start)
            [] OTHER -> StrokedSegments(rest, ctm, current, subpath_start)

\* C19: a stroke adds one Line per LineTo and, for every ClosePath (h, or the
\* close of s), a Line from the current point to the start of the subpath
\* exactly when the two points differ in x or in y, a horizontal or vertical
\* closing segment included.
C19_ClosingSegment ==
  [][PaintStep({"S", "s"}) =>
       LET path == IF trace'[Len(trace')].op = "s"
                   THEN Append(interp.path, <<"ClosePath">>) ELSE interp.path
           segments == StrokedSegments(path, interp.gs.ctm, <<0, 0>>, <<0, 0>>)
       IN /\ Len(NewLines) = Len(segments)
          /\ \A k \in 1..Len(segments) :
               /\ <<NewLines[k].x0, NewLines[k].y0>> =
                    to_page_coords(interp, segments[k][1][1], segments[k][1][2])
               /\ <<NewLines[k].x1, NewLines[k].y1>> =
                    to_page_coords(interp, segments[k][2][1], segments[k][2][2])]_vars

(***************************************************************************)
(* Intersections                                                           *)
(***************************************************************************)
\* C21: the list find_intersections returns holds no two points within
\* x_tolerance of each other in x and within y_tolerance of each other in y.
C21_IntersectionsDeduplicated ==
  (fn.name = "find_intersections" /\ fn.done) =>
    \A i, j \in 1..Len(fn.ret) :
      i # j => \/ Abs(fn.ret[i][1] - fn.ret[j][1]) > fn.args[2]
               \/ Abs(fn.ret[i][2] - fn.ret[j][2]) > fn.args[3]

(***************************************************************************)
(* Simple text extraction                                                  *)
(***************************************************************************)
\* the characters of the sorted list that extract_text_simple emits
Emitted(k) ==
  fn.options.keep_blank_chars \/ trim(fn.sorted[k].text) # <<>> \/ fn.sorted[k].text = <<32>>

\* C22: walking the sorted characters, a line break is put before a character
\* exactly when its top is more than y_tolerance away from the top of the
\* character immediately before it.
C22_LineBreaks ==
  (fn.name = "extract_text_simple" /\ fn.done) =>
    \A k \in 2..Len(fn.sorted) :
      (Emitted(k) /\ Emitted(k - 1)) =>
        ((k \in fn.breaks) <=>
           Abs(fn.sorted[k].top - fn.sorted[k - 1].top) > fn.options.y_tolerance)

(***************************************************************************)
(* Resources of a page                                                     *)
(***************************************************************************)
\* the Resources entry of the nearest node on the Parent chain that has one
RECURSIVE NearestResources(_)
NearestResources(node) ==
  IF doc.nodes[node].Resources # None THEN doc.nodes[node].Resources
  ELSE IF doc.nodes[node].Parent # None THEN NearestResources(doc.nodes[node].Parent[1])
  ELSE None

\* C23: the resources a page is interpreted with are those of the page itself
\* or, when it has none, of the nearest ancestor that has a Resources entry,
\* at any depth of the page tree.
C23_ResourceInheritance ==
  Running => call.resources = NearestResources(doc.page_ids[call.i])

(***************************************************************************)
(* Extraction history                                                      *)
(***************************************************************************)
\* C27: every Page a Document produces is the Page a Document that has
\* extracted nothing before produces for the same page number.
C27_HistoryIndependent ==
  \A k \in 1..Len(log) : <<"Ok", log[k]>> = extract_page(log[k].page_number, EmptyMap)

(***************************************************************************)
(* Text positioning                                                        *)
(***************************************************************************)
\* the step is process_operation on an operation with operator o
Processed(o) == pc' = pc + 1 /\ fn'.op.operator = o

\* process_operation on the state before the step
Apply(self, op) == process_operation(self, font_cache, op, call.resources)

\* C24: after Td, TD, Tm and T* the text matrix equals the text line matrix;
\* T* does what Td 0 -leading does; TD tx ty does what TL -ty followed by
\* Td tx ty does; Tj and TJ change the text matrix and nothing else of the
\* text state.
C24_PositioningLaws ==
  [][/\ (Processed("Td") \/ Processed("TD") \/ Processed("Tm") \/ Processed("T*"))
          => interp'.ts.text_matrix = interp'.ts.text_line_matrix
     /\ Processed("T*") => interp' = Apply(interp, Op2("Td", 0, -interp.ts.leading))
     /\ Processed("TD")
          => interp' = Apply(Apply(interp, Op1("TL", -get_number(fn'.op.operands[2]))),
                             Operation("Td", fn'.op.operands))
     /\ (Processed("Tj") \/ Processed("TJ"))
          => interp'.ts = [interp.ts EXCEPT !.text_matrix = interp'.ts.text_matrix]
    ]_vars

\* T* has moved the line matrix by a leading set before, after a shown string
\* had moved the text matrix away from it
C24_Witness ==
  /\ fn.name = "process_operation" /\ fn.op.operator = "T*"
  /\ interp.ts.leading = 5
  /\ interp.ts.text_line_matrix = translate(0, -5)
  /\ interp.chars # <<>>

(***************************************************************************)
(* Cell grouping                                                           *)
(***************************************************************************)
\* the cells detect_tables groups: the output of build_cells
AcceptedCells == DetectCells(fn.page, fn.settings)

\* a chain of cells from i to j, each adjacent to the next, through cells not in seen
RECURSIVE Chained(_, _, _, _)
Chained(cells, i, j, seen) ==
  \/ i = j
  \/ \E k \in (1..Len(cells)) \ seen :
       /\ cells_adjacent(cells[i], cells[k]) \/ cells_adjacent(cells[k], cells[i])
       /\ Chained(cells, k, j, seen \cup {k})

\* the tables that hold a cell with the bbox of cell i
TablesOf(cells, i) ==
  {t \in 1..Len(fn.tables) :
     \E k \in 1..Len(fn.tables[t].cells) : fn.tables[t].cells[k].bbox = cells[i].bbox}

Components(colorspace) ==
  CASE colorspace \in {"DeviceGray", "CalGray"} -> 1
    [] colorspace \in {"DeviceRGB", "CalRGB"} -> 3
    [] colorspace = "DeviceCMYK" -> 4
    [] OTHER -> 0

\* the operands an operator takes in the interpreter state self
Required(o, self) ==
  CASE o \in {"m", "l", "Td", "TD", "Tf"} -> 2
    [] o \in {"re", "v", "y", "K", "k"} -> 4
    [] o \in {"c", "cm", "Tm"} -> 6
    [] o \in {"\"", "RG", "rg"} -> 3
    [] o \in {"SC", "SCN"} -> Components(self.gs.stroking_colorspace)
    [] o \in {"sc", "scn"} -> Components(self.gs.non_stroking_colorspace)
    [] OTHER -> 0

\* C26: an operator given fewer operands than it takes leaves the whole
\* interpreter state as it was and raises no error.
C26_UnderSuppliedIgnored ==
  [][(pc' = pc + 1 /\ Len(fn'.op.operands) < Required(fn'.op.operator, interp))
       => (interp' = interp /\ call'.phase = "run")]_vars

(***************************************************************************)
(* Cell text                                                               *)
(***************************************************************************)
\* how many times the code point v occurs in the text s
RECURSIVE Occurrences(_, _)
Occurrences(s, v) ==
  IF s = <<>> THEN 0 ELSE (IF Head(s) = v THEN 1 ELSE 0) + Occurrences(Tail(s), v)

\* the texts of a sequence of records, one after the other
Texts(items) == Concat([k \in 1..Len(items) |-> items[k].text])

\* C28: within one table every page character gives its text to at most one
\* cell: no letter occurs in the texts of the table's cells more often than in
\* the characters of the page.
C28_CharInOneCell ==
  (fn.name = "detect_tables" /\ fn.stage = "detected" /\ ~fn.merged) =>
    \A t \in 1..Len(fn.tables) :
      \A v \in 65..68 :
        Occurrences(Texts(fn.tables[t].cells), v) <= Occurrences(Texts(fn.page.chars), v)

(***************************************************************************)
(* Order of the tables                                                     *)
(***************************************************************************)
\* C29: for a fixed page and settings, a run of detect_tables returns what
\* every other run returns: the same tables in the same order.
C29_Deterministic ==
  (fn.name = "detect_tables" /\ fn.stage = "detected" /\ ~fn.merged) =>
    \A again \in detect_tables(fn.page, fn.settings) : again = fn.tables

(***************************************************************************)
(* q and Q                                                                 *)
(***************************************************************************)
\* what q and Q are not to touch: text state, in_text, path buffer, primitives
OutsideGraphicsState(self) ==
  <<self.ts, self.in_text, self.path, self.chars, self.lines, self.rects, self.curves>>

\* C30: q and Q leave the text state, the in_text flag, the path buffer and
\* the emitted primitives as they were; Q gives back the graphics state saved
\* by the matching q and nothing else.
C30_SaveRestoreFrame ==
  [][(Processed("q") \/ Processed("Q"))
       => OutsideGraphicsState(interp') = OutsideGraphicsState(interp)]_vars

\* q, a line width and a font set, Q: the line width is back, the font stays
C30_Witness ==
  /\ fn.name = "process_operation" /\ fn.op.operator = "Q"
  /\ Len(trace) = 4 /\ trace[1].op = "q"
  /\ {trace[2].op, trace[3].op} = {"w", "Tf"}
  /\ interp.gs.line_width = 1
  /\ interp.ts.font_name = "F1" /\ interp.ts.font_size = 2
  /\ interp.graphics_stack = <<>>

====
